---- MODULE Spec2Model ----
(***************************************************************************)
(* A model of the ArknightsVote backend.                                   *)
(*                                                                         *)
(* Part 1: the in-process ballot aggregator of portable-service            *)
(* (proc.rs) with the KV scripts it invokes (constants.rs) and the         *)
(* document-store archive.                                                 *)
(* Part 2: the /ballot/new, /ballot/save and /ballot/skip handlers of      *)
(* portable-service and the challenge store.                               *)
(* Part 3: the save_score stream consumer of nats-service and its          *)
(* dead-letter handling.                                                   *)
(*                                                                         *)
(* KV hashes are functions whose domain is the set of fields present;      *)
(* HINCRBY on an absent field starts from 0.  A field name such as         *)
(* "{win}:{lose}" is a tuple <<win, lose>>, a key "{topic}:op_stats" is    *)
(* the entry of the topic in op_stats: the decimal formatting of i32 ids   *)
(* and the fixed separators make these formats injective.                  *)
(***************************************************************************)
EXTENDS Integers, Sequences, FiniteSets, TLC

\* ------------------------------------------------------------------ bounds
\* Number of ballots handed to submit_ballot in one behaviour.
MaxBallots == 2
\* Number of KV / document-store calls that fail in one behaviour.
MaxFaults == 3
\* Number of challenges /ballot/new creates in one behaviour.
MaxChallenges == 1
\* Number of /ballot/save requests in one behaviour.
MaxSaves == 2
\* Number of messages producers publish on the stream in one behaviour.
MaxMessages == 1
\* Number of skip requests producers publish in one behaviour.
MaxSkips == 2
\* Number of writes to the topics collection in one behaviour.
MaxUpdates == 2
\* Number of calls of /ballot/new and of the save_score consumer that fail
\* in one behaviour of the two together.
MaxConsumerFaults == 1
\* Number of save_score messages failing double_acks leave unacked.
MaxAckFaults == 1
\* Number of times the stream redelivers its unacked messages.
MaxRedeliveries == 1
\* Seconds of wall-clock time that pass in nats-service.
MaxTime == 2

\* ------------------------------------------------------------- input sets
Topics == {"T1", "T2"}
IPs == {"ipA", "ipB"}
Operators == {1, 2}
Variants == {"pairwise", "setwise", "groupwise", "plurality"}

\* VoteConfig values the configuration file may carry (all fields are i32).
Configs ==
    { [base_multiplier |-> 2, low_multiplier |-> 1, max_ip_limit |-> 1],
      [base_multiplier |-> 1, low_multiplier |-> -1, max_ip_limit |-> 0] }

\* The ballots a caller may hand to submit_ballot.  seq stands for the
\* (ballot_id, timestamp) identity of the ballot.
PairwiseInputs ==
    { [variant |-> "pairwise", topic |-> "T1", ip |-> "ipA", win |-> 1, lose |-> 2, seq |-> 0],
      [variant |-> "pairwise", topic |-> "T1", ip |-> "ipB", win |-> 2, lose |-> 1, seq |-> 0],
      [variant |-> "pairwise", topic |-> "T2", ip |-> "ipA", win |-> 2, lose |-> 1, seq |-> 0] }

OtherInputs ==
    { [variant |-> "setwise", topic |-> "T1", ip |-> "ipA", win |-> 0, lose |-> 0, seq |-> 0] }

\* ---------------------------------------------------------------- state
VARIABLES
    cfg,                 \* AppConfig.vote
    channel,             \* the unbounded mpsc channel of BallotProcessor
    closed,              \* every sender has been dropped
    worker,              \* "running" | "done": batch_processor_task
    groups,              \* BallotMessageGroup: the four buffers and total_count
    attempt,             \* 0: not flushing; 1..3: next attempt of the flush
    flush,               \* the running attempt: the store call it is at, its locals
    batch,               \* the batch taken by take_all for the running flush
    ticks,               \* ticker firings since last_flush was set, capped at 2
    stats,               \* ProcessingStats counters
    op_stats,            \* {topic}:op_stats hashes
    op_matrix,           \* {topic}:op_matrix hashes
    op_counter,          \* {topic}:op_counter hashes
    valid_ballots_count, \* {topic}:valid_ballots_count
    ip_counter,          \* {topic}:ip_counter:{ip}
    archive,             \* ballots_{topic} collections (insertion order)
    failedLog,           \* the failed_*_ballots_*.log files, one entry per line
    nextSeq,             \* ballots submitted so far
    faults,              \* KV / document-store calls that have failed so far
    topic_table,         \* the voting topics TopicService::get_topic finds
    ballot_cache_store,  \* AppState.ballot_cache_store: key -> (left, right)
    issued,              \* ballot ids handed out by /ballot/new so far
    started,             \* /ballot/save requests received so far
    inflight,            \* saves in flight: before ("remove") or after ("submit") their challenge lookup
    response,            \* the latest /ballot/save response
    passed,              \* per ballot id: saves that got past the lookup
    create_response,     \* the latest /ballot/new response
    creating,            \* /ballot/new requests suspended at a lookup or at the insert
    stream,              \* ark-vote.save_score: messages awaiting delivery, in order
    dlq,                 \* ark-vote.dlq: the dead letters published, in order
    published,           \* messages producers have published so far
    n_codes,             \* nats-service KV: challenge keys -> value parts
    n_ip_counter,        \* nats-service KV: the ip counters
    n_kv,                \* nats-service KV: op_stats, op_matrix, total_valid_ballots
    n_archive,           \* nats-service document store: collection -> ballots
    results,             \* what the consumer did with each message since its latest fetch
    n_now,               \* chrono::Utc::now().timestamp() of nats-service
    unacked,             \* save_score messages the consumer is done with and never acked
    redelivered,         \* redeliveries of unacked messages so far
    consumer,            \* the save_score consumer thread: its position and locals
    dlq_acked,           \* sequence numbers of the dead letters acked so far
    dead_letter_queue,   \* the dead_letter_queue collection
    dlq_consumer,        \* the DLQ consumer thread: its position and locals
    skip_stream,         \* ark-vote.ballot_skip: the messages published, in order
    skip_published,      \* skip requests producers have published so far
    ncr_stream,          \* ark-vote.new_compare_request: messages awaiting delivery
    ncr_unacked,         \* new_compare_request messages delivered and never acked
    ncr_published,       \* requests producers have published so far
    ncr_consumer,        \* the new_compare_request consumer thread
    tc_db,               \* the topics collection: the stored VotingTopics in natural order
    tc_cache,            \* TopicService.cache.cache: topic id -> CacheEntry
    up_cache,            \* the TopicCache handed to cache_updater: its own map
    last_full_refresh,   \* TopicCache.last_full_refresh (shared by both caches)
    tc_now,              \* Utc::now() of portable-service
    refresh_readers,     \* read guards of refresh_lock held
    refresh_writer,      \* the write guard of refresh_lock is held
    tcalls,              \* per request thread: the TopicService call it is in
    tc_ret,              \* the latest value a TopicService call returned
    up_pc,               \* cache_updater: the call it is in and its position
    up_topics,           \* cache_updater: the topics its find has read
    tc_writes,           \* writes to the topics collection so far
    fo_stats,            \* {topic}:op_stats as /results/final_order reads it
    fo_pool,             \* the candidate pool of the topic, in its order
    fo_items,            \* ResultsFinalOrderResponse.items (<<>>: no response yet)
    fo_values,           \* the reply of the final-order script, with what each value means
    results_cache_store, \* AppState.results_cache_store: key -> ResultsCacheValue
    rcalls,              \* per request thread: the /results handler it is in
    r_ret,               \* the latest /results response
    r_inserted,          \* (topic, variant) inserted and not expired since
    r_started,           \* /results requests received so far
    gp_preset,           \* the CandidatePoolPreset generate_pool is called on
    gp_infos,            \* the character_infos it is called with
    gp_pool,             \* whether it has returned, and the Vec<i32> it returned
    wk_now,              \* web-service processes: seconds of wall-clock time
    wk_keys,             \* Redis: snowflake:worker:<id> -> the time the key expires at
    wk_proc,             \* per process: position, worker_id, due time of the keep-alive
    wk_faults,           \* failed Redis calls of the worker-id manager so far
    tm_concurrency,      \* TaskManager: the permits the semaphore was created with
    tm_stats,            \* TaskManager.stats: queued, running, completed
    tm_chan,             \* the unbounded channel: tasks sent and not yet received
    tm_permits,          \* permits the semaphore has available
    tm_tasks,            \* every task handed to spawn: its kind and where it is
    tm_rx,               \* TRUE while the dispatcher holds the receiver
    sf_cfg,              \* Snowflake: epoch, data_center_id, worker_id
    sf,                  \* Snowflake.internals: last_timestamp, sequence
    sf_ids               \* the ids next_id returned: the last two, in order

aggVars == <<cfg, channel, closed, worker, groups, attempt, flush, batch, ticks, stats,
             failedLog, nextSeq, faults>>
procVars == <<cfg, channel, closed, worker, groups, attempt, flush, batch, ticks, stats,
              failedLog, nextSeq>>
kvVars == <<op_stats, op_matrix, op_counter, valid_ballots_count, ip_counter>>
apiVars == <<topic_table, ballot_cache_store, issued, started, inflight, response, passed,
             create_response, creating>>
dlqVars == <<dlq_acked, dead_letter_queue, dlq_consumer>>
skipVars == <<skip_stream, skip_published>>
ncrVars == <<ncr_stream, ncr_unacked, ncr_published, ncr_consumer>>
natsVars == <<stream, dlq, published, n_codes, n_ip_counter, n_kv, n_archive, results,
              n_now, unacked, redelivered, consumer, dlqVars, skipVars, ncrVars>>
topicVars == <<tc_db, tc_cache, up_cache, last_full_refresh, tc_now, refresh_readers,
               refresh_writer, tcalls, tc_ret, up_pc, up_topics, tc_writes>>
poolVars == <<gp_preset, gp_infos, gp_pool>>
snowflakeVars == <<sf_cfg, sf, sf_ids>>
workerVars == <<wk_now, wk_keys, wk_proc, wk_faults>>
taskVars == <<tm_concurrency, tm_stats, tm_chan, tm_permits, tm_tasks, tm_rx>>
webVars == <<snowflakeVars, workerVars, taskVars>>
resultVars == <<fo_stats, fo_pool, fo_items, fo_values, results_cache_store, rcalls, r_ret,
                r_inserted, r_started, poolVars, webVars>>
restVars == <<apiVars, natsVars, topicVars, resultVars>>
vars == <<aggVars, kvVars, archive, restVars>>

\* ---------------------------------------------------------------- helpers
Min(a, b) == IF a < b THEN a ELSE b
Max(a, b) == IF a < b THEN b ELSE a

\* The orders in which a HashSet / HashMap may iterate over the set S.
IterationOrders(S) ==
    { s \in [1..Cardinality(S) -> S] : \A x \in S : \E i \in DOMAIN s : s[i] = x }

SeqRange(s) == {s[i] : i \in DOMAIN s}

\* Redis HINCRBY / HGET on a hash h.
HIncrBy(h, f, n) ==
    IF f \in DOMAIN h THEN [h EXCEPT ![f] = @ + n] ELSE h @@ (f :> n)
HGet(h, f) == IF f \in DOMAIN h THEN h[f] ELSE 0

EmptyHash == << >>
EmptyBatch == [pairwise |-> <<>>, setwise |-> <<>>, groupwise |-> <<>>, plurality |-> <<>>]

\* --------------------------------------------------------------- Snowflake
BIT_LEN_TIME == 39
BIT_LEN_SEQUENCE == 12
BIT_LEN_DATA_CENTER_ID == 8
BIT_LEN_MACHINE_ID == 63 - BIT_LEN_TIME - BIT_LEN_SEQUENCE - BIT_LEN_DATA_CENTER_ID
GENERATE_MASK_SEQUENCE == 2^BIT_LEN_SEQUENCE - 1

\* a | b on unsigned integers
RECURSIVE BitOr(_, _)
BitOr(a, b) ==
    IF a = 0 THEN b
    ELSE IF b = 0 THEN a
    ELSE Max(a % 2, b % 2) + 2 * BitOr(a \div 2, b \div 2)

\* a & mask for a mask of the form 2^k - 1
BitAndMask(a, mask) == a % (mask + 1)

\* a << n
ShiftLeft(a, n) == a * 2^n

\* The u64 next_id returns for the timestamp and sequence it settled on.
snowflake_id(c, timestamp, sequence) ==
    BitOr(BitOr(BitOr(ShiftLeft(timestamp - c.epoch,
                                BIT_LEN_SEQUENCE + BIT_LEN_MACHINE_ID + BIT_LEN_DATA_CENTER_ID),
                      ShiftLeft(sequence, BIT_LEN_MACHINE_ID + BIT_LEN_DATA_CENTER_ID)),
                ShiftLeft(c.data_center_id, BIT_LEN_MACHINE_ID)),
          c.worker_id)

\* The readings unix_timestamp_ms() may give: the clock is the wall clock,
\* it stays within MaxClock ms of the epoch here, so that the ids stay
\* below 2^31 and no u64 operation wraps.
MaxClock == 2
ClockReadings(c) == c.epoch .. c.epoch + MaxClock

\* Snowflake::new
new_internals == [last_timestamp |-> 0, sequence |-> 0]

\* next_id has settled on timestamp and sequence: it stores them and returns.
next_id_returns(timestamp, sequence) ==
    /\ sf' = [last_timestamp |-> timestamp, sequence |-> sequence]
    /\ sf_ids' = IF sf_ids = <<>> THEN <<snowflake_id(sf_cfg, timestamp, sequence)>>
                 ELSE <<sf_ids[Len(sf_ids)], snowflake_id(sf_cfg, timestamp, sequence)>>

\* Snowflake::next_id, under the mutex: it reads the clock, and when the
\* sequence wraps it reads the clock again until it is past last_timestamp.
next_id ==
    /\ \E timestamp \in ClockReadings(sf_cfg) :
          IF timestamp = sf.last_timestamp
          THEN LET sequence == BitAndMask(sf.sequence + 1, GENERATE_MASK_SEQUENCE)
               IN  IF sequence = 0
                   THEN \E later \in ClockReadings(sf_cfg) :
                           /\ later > sf.last_timestamp
                           /\ next_id_returns(later, sequence)
                   ELSE next_id_returns(timestamp, sequence)
          ELSE next_id_returns(timestamp, 0)
    /\ UNCHANGED <<sf_cfg, poolVars, workerVars, taskVars>>
    /\ UNCHANGED <<fo_stats, fo_pool, fo_items, fo_values, results_cache_store, rcalls, r_ret,
                   r_inserted, r_started>>
    /\ UNCHANGED <<aggVars, kvVars, archive, apiVars, natsVars, topicVars>>

\* The generators of the services: SnowflakeConfig of one deployment.
SnowflakeConfigs ==
    [epoch : {1}, data_center_id : {1}, worker_id : {1, 17}]

InitSnowflakeWith(configs) ==
    /\ sf_cfg \in configs
    /\ sf = new_internals
    /\ sf_ids = <<>>

InitSnowflake == InitSnowflakeWith({[epoch |-> 1, data_center_id |-> 1, worker_id |-> 1]})

\* ---------------------------------------- WorkerIdManager (web-service)
\* The largest worker id WebService::run lets the manager try.
MaxWorkerId == 1
\* The time the model follows the processes for, in seconds.
MaxWkTime == 120
\* Redis calls of the manager that may fail.
MaxWkFaults == 1

\* EX of the SET and seconds of the EXPIRE
WORKER_KEY_TTL == 60
\* the sleep of the keep-alive loop, in seconds
KEEP_ALIVE_SLEEP == 30

WebProcesses == {"w1", "w2"}
NoWorkerId == -1

\* snowflake:worker:<id> is present in Redis: it was set and has not expired.
worker_key_exists(id) == wk_keys[id] > wk_now

backendVars == <<aggVars, kvVars, archive, apiVars, natsVars, topicVars,
                 fo_stats, fo_pool, fo_items, fo_values, results_cache_store, rcalls, r_ret,
                 r_inserted, r_started, poolVars>>

\* WebService::run reaches WorkerIdManager::acquire.
web_service_run(p) ==
    /\ wk_proc[p].pc = "init"
    /\ wk_proc' = [wk_proc EXCEPT ![p].pc = "acquire", ![p].cursor = 0]
    /\ UNCHANGED <<wk_now, wk_keys, wk_faults, snowflakeVars, taskVars, backendVars>>

\* One turn of the loop of WorkerIdManager::acquire: SET key locked NX EX 60
\* for the id under the cursor.  A reply makes the id the process's
\* worker_id, and run goes on to start keep_alive and to build the Snowflake
\* with it; nil moves the cursor, and past max_worker_id acquire bails and
\* run returns the error; a failed call makes run return the error as well.
acquire(p) ==
    /\ wk_proc[p].pc = "acquire"
    /\ LET id == wk_proc[p].cursor
       IN  \/ /\ ~worker_key_exists(id)
              /\ wk_keys' = [wk_keys EXCEPT ![id] = wk_now + WORKER_KEY_TTL]
              /\ wk_proc' = [wk_proc EXCEPT ![p].pc = "running", ![p].worker_id = id,
                                            ![p].keep_alive_at = wk_now]
              /\ UNCHANGED wk_faults
           \/ /\ worker_key_exists(id)
              /\ wk_proc' = [wk_proc EXCEPT ![p].pc = IF id = MaxWorkerId THEN "exited" ELSE "acquire",
                                            ![p].cursor = IF id = MaxWorkerId THEN id ELSE id + 1]
              /\ UNCHANGED <<wk_keys, wk_faults>>
           \/ /\ wk_faults < MaxWkFaults
              /\ wk_faults' = wk_faults + 1
              /\ wk_proc' = [wk_proc EXCEPT ![p].pc = "exited"]
              /\ UNCHANGED wk_keys
    /\ UNCHANGED <<wk_now, snowflakeVars, taskVars, backendVars>>

\* One turn of the loop of the task keep_alive spawns: EXPIRE key 60 for the
\* process's worker_id, which renews the key when it is present and does
\* nothing when it is not; the outcome of the call is dropped, a failed call
\* included; then the task sleeps 30 seconds.
keep_alive(p) ==
    /\ wk_proc[p].pc = "running"
    /\ wk_proc[p].keep_alive_at <= wk_now
    /\ LET id == wk_proc[p].worker_id
       IN  \/ /\ wk_keys' = IF worker_key_exists(id)
                            THEN [wk_keys EXCEPT ![id] = wk_now + WORKER_KEY_TTL]
                            ELSE wk_keys
              /\ UNCHANGED wk_faults
           \/ /\ wk_faults < MaxWkFaults
              /\ wk_faults' = wk_faults + 1
              /\ UNCHANGED wk_keys
    /\ wk_proc' = [wk_proc EXCEPT ![p].keep_alive_at = wk_now + KEEP_ALIVE_SLEEP]
    /\ UNCHANGED <<wk_now, snowflakeVars, taskVars, backendVars>>

\* The process ends; its keep-alive task ends with it.
web_service_exit(p) ==
    /\ wk_proc[p].pc = "running"
    /\ wk_proc' = [wk_proc EXCEPT ![p].pc = "exited"]
    /\ UNCHANGED <<wk_now, wk_keys, wk_faults, snowflakeVars, taskVars, backendVars>>

\* KEEP_ALIVE_SLEEP seconds pass; no keep-alive turn is overdue: every
\* running process has made the call that was due.
worker_clock_tick ==
    /\ wk_now + KEEP_ALIVE_SLEEP <= MaxWkTime
    /\ \A p \in WebProcesses :
          wk_proc[p].pc = "running" => wk_proc[p].keep_alive_at > wk_now
    /\ wk_now' = wk_now + KEEP_ALIVE_SLEEP
    /\ UNCHANGED <<wk_keys, wk_proc, wk_faults, snowflakeVars, taskVars, backendVars>>

InitWorkerId ==
    /\ wk_now = 0
    /\ wk_keys = [id \in 0..MaxWorkerId |-> 0]
    /\ wk_proc = [p \in WebProcesses |->
                     [pc |-> "init", cursor |-> 0, worker_id |-> NoWorkerId, keep_alive_at |-> 0]]
    /\ wk_faults = 0

NextWorkerId ==
    \/ \E p \in WebProcesses : web_service_run(p)
    \/ \E p \in WebProcesses : acquire(p)
    \/ \E p \in WebProcesses : keep_alive(p)
    \/ \E p \in WebProcesses : web_service_exit(p)
    \/ worker_clock_tick


\* ------------------------------------------------ TaskManager (web-service)
\* spawn calls the model follows.
MaxSpawns == 3
\* The largest task_manager.concurrency of the configuration.
MaxConcurrency == 2

\* What a task handed to spawn does: its closure returns a future that runs
\* to its end ("ok") or panics ("panic_future"), or the closure itself
\* panics before it returns a future ("panic_closure").
TaskKinds == {"ok", "panic_future", "panic_closure"}

\* saturating_sub(1) and saturating_add(1) on usize
saturating_sub(n) == IF n = 0 THEN 0 ELSE n - 1
saturating_add(n) == n + 1

TasksAt(where) == {i \in DOMAIN tm_tasks : tm_tasks[i].at = where}

\* TaskManager::spawn, lines 99-102: the caller gets the stats lock and
\* increments queued.
spawn_called(kind) ==
    /\ Len(tm_tasks) < MaxSpawns
    /\ tm_tasks' = Append(tm_tasks, [kind |-> kind, at |-> "calling"])
    /\ tm_stats' = [tm_stats EXCEPT !.queued = saturating_add(@)]
    /\ UNCHANGED <<tm_concurrency, tm_chan, tm_permits, tm_rx>>
    /\ UNCHANGED <<snowflakeVars, workerVars, backendVars>>

\* TaskManager::spawn, lines 104-106: the task is boxed and sent on the
\* channel; with the receiver gone the send fails.
spawn_sends(i) ==
    /\ i \in TasksAt("calling")
    /\ IF tm_rx
       THEN /\ tm_chan' = Append(tm_chan, i)
            /\ tm_tasks' = [tm_tasks EXCEPT ![i].at = "queued"]
       ELSE /\ tm_tasks' = [tm_tasks EXCEPT ![i].at = "send_failed"]
            /\ UNCHANGED tm_chan
    /\ UNCHANGED <<tm_concurrency, tm_stats, tm_permits, tm_rx>>
    /\ UNCHANGED <<snowflakeVars, workerVars, backendVars>>

\* TaskManager::spawn, lines 107-109: after a failed send the caller gets
\* the stats lock again and decrements queued.
spawn_send_failed(i) ==
    /\ i \in TasksAt("send_failed")
    /\ tm_stats' = [tm_stats EXCEPT !.queued = saturating_sub(@)]
    /\ tm_tasks' = [tm_tasks EXCEPT ![i].at = "dropped"]
    /\ UNCHANGED <<tm_concurrency, tm_chan, tm_permits, tm_rx>>
    /\ UNCHANGED <<snowflakeVars, workerVars, backendVars>>

\* The dispatcher at the head of its loop, line 44: rx.recv() returns the
\* next task of the channel.
dispatcher_recv ==
    /\ tm_rx
    /\ TasksAt("received") \cup TasksAt("taken") = {}
    /\ tm_chan # <<>>
    /\ tm_chan' = Tail(tm_chan)
    /\ tm_tasks' = [tm_tasks EXCEPT ![Head(tm_chan)].at = "received"]
    /\ UNCHANGED <<tm_concurrency, tm_stats, tm_permits, tm_rx>>
    /\ UNCHANGED <<snowflakeVars, workerVars, backendVars>>

\* The dispatcher, lines 45-48: it gets the stats lock and decrements
\* queued; it then waits for a permit.
dispatcher_dequeues(i) ==
    /\ tm_rx
    /\ i \in TasksAt("received")
    /\ tm_stats' = [tm_stats EXCEPT !.queued = saturating_sub(@)]
    /\ tm_tasks' = [tm_tasks EXCEPT ![i].at = "taken"]
    /\ UNCHANGED <<tm_concurrency, tm_chan, tm_permits, tm_rx>>
    /\ UNCHANGED <<snowflakeVars, workerVars, backendVars>>

\* The dispatcher, lines 50-54: acquire_owned returns a permit and the
\* worker of the task in hand is spawned.
dispatcher_spawns(i) ==
    /\ tm_rx
    /\ i \in TasksAt("taken")
    /\ tm_permits > 0
    /\ tm_permits' = tm_permits - 1
    /\ tm_tasks' = [tm_tasks EXCEPT ![i].at = "spawned"]
    /\ UNCHANGED <<tm_concurrency, tm_stats, tm_chan, tm_rx>>
    /\ UNCHANGED <<snowflakeVars, workerVars, backendVars>>

\* The worker, lines 55-58: it gets the stats lock and increments running.
worker_starts(i) ==
    /\ i \in TasksAt("spawned")
    /\ tm_stats' = [tm_stats EXCEPT !.running = @ + 1]
    /\ tm_tasks' = [tm_tasks EXCEPT ![i].at = "started"]
    /\ UNCHANGED <<tm_concurrency, tm_chan, tm_permits, tm_rx>>
    /\ UNCHANGED <<snowflakeVars, workerVars, backendVars>>

\* The worker, line 60: the closure is called, outside of catch_unwind.  It
\* returns its future, which the worker then awaits, or it panics: the
\* worker unwinds, which drops the permit it owns, and the rest of the
\* worker does not run.
worker_calls(i) ==
    /\ i \in TasksAt("started")
    /\ IF tm_tasks[i].kind = "panic_closure"
       THEN /\ tm_tasks' = [tm_tasks EXCEPT ![i].at = "unwound"]
            /\ tm_permits' = tm_permits + 1
       ELSE /\ tm_tasks' = [tm_tasks EXCEPT ![i].at = "running"]
            /\ UNCHANGED tm_permits
    /\ UNCHANGED <<tm_concurrency, tm_stats, tm_chan, tm_rx>>
    /\ UNCHANGED <<snowflakeVars, workerVars, backendVars>>

\* The worker, lines 62-77: the future has ended, by returning or by a
\* panic catch_unwind caught; the worker gets the stats lock, decrements
\* running and increments completed.
worker_finishes(i) ==
    /\ i \in TasksAt("running")
    /\ tm_stats' = [tm_stats EXCEPT !.running = saturating_sub(@), !.completed = @ + 1]
    /\ tm_tasks' = [tm_tasks EXCEPT ![i].at = "counted"]
    /\ UNCHANGED <<tm_concurrency, tm_chan, tm_permits, tm_rx>>
    /\ UNCHANGED <<snowflakeVars, workerVars, backendVars>>

\* The worker, line 79: drop(permit); the worker has ended.
worker_drops_permit(i) ==
    /\ i \in TasksAt("counted")
    /\ tm_permits' = tm_permits + 1
    /\ tm_tasks' = [tm_tasks EXCEPT ![i].at = "completed"]
    /\ UNCHANGED <<tm_concurrency, tm_stats, tm_chan, tm_rx>>
    /\ UNCHANGED <<snowflakeVars, workerVars, backendVars>>

\* Where a worker that holds its permit is.
WorkerPositions == {"spawned", "started", "running", "counted"}

\* The runtime shuts down: the dispatcher and the workers are dropped where
\* they wait, with the receiver, the tasks still in the channel and the
\* permits the workers held.
runtime_shutdown ==
    /\ tm_rx
    /\ tm_rx' = FALSE
    /\ tm_chan' = <<>>
    /\ tm_tasks' = [i \in DOMAIN tm_tasks |->
                       IF tm_tasks[i].at \in {"queued", "received", "taken"} \cup WorkerPositions
                       THEN [tm_tasks[i] EXCEPT !.at = "dropped"]
                       ELSE tm_tasks[i]]
    /\ tm_permits' = tm_permits + Cardinality({i \in DOMAIN tm_tasks :
                                                  tm_tasks[i].at \in WorkerPositions})
    /\ UNCHANGED <<tm_concurrency, tm_stats>>
    /\ UNCHANGED <<snowflakeVars, workerVars, backendVars>>

\* TaskManager::new(concurrency)
InitTasksWith(concurrencies) ==
    /\ tm_concurrency \in concurrencies
    /\ tm_stats = [queued |-> 0, running |-> 0, completed |-> 0]
    /\ tm_chan = <<>>
    /\ tm_permits = tm_concurrency
    /\ tm_tasks = <<>>
    /\ tm_rx = TRUE

InitTasks == InitTasksWith({1})

NextTasks ==
    \/ \E kind \in TaskKinds : spawn_called(kind)
    \/ \E i \in 1..MaxSpawns : spawn_sends(i)
    \/ \E i \in 1..MaxSpawns : spawn_send_failed(i)
    \/ dispatcher_recv
    \/ \E i \in 1..MaxSpawns : dispatcher_dequeues(i)
    \/ \E i \in 1..MaxSpawns : dispatcher_spawns(i)
    \/ \E i \in 1..MaxSpawns : worker_starts(i)
    \/ \E i \in 1..MaxSpawns : worker_calls(i)
    \/ \E i \in 1..MaxSpawns : worker_finishes(i)
    \/ \E i \in 1..MaxSpawns : worker_drops_permit(i)
    \/ runtime_shutdown

InitWeb == InitSnowflake /\ InitWorkerId /\ InitTasks

\* ------------------------------------------------------ BallotMessageGroup
\* BallotMessageGroup::add
add(g, message) ==
    [g EXCEPT ![message.variant] = Append(@, message),
              !.total_count = @ + 1]

\* BallotMessageGroup::take_all: the buffers are taken, total_count is kept.
take_all(g) ==
    [g EXCEPT !.pairwise = <<>>, !.setwise = <<>>, !.groupwise = <<>>, !.plurality = <<>>]

taken(g) ==
    [pairwise |-> g.pairwise, setwise |-> g.setwise,
     groupwise |-> g.groupwise, plurality |-> g.plurality]

\* Buffers that always report empty.
is_empty_always(g) == TRUE

\* BallotMessageGroup::is_empty
is_empty(g) == g.total_count = 0

\* A trigger that waits until every buffer has reached the limit.
need_process_all(g) ==
    LET limit == Min(g.capacity, 150)
    IN  /\ Len(g.pairwise) >= limit
        /\ Len(g.setwise) >= limit
        /\ Len(g.groupwise) >= limit
        /\ Len(g.plurality) >= limit

\* BallotMessageGroup::need_process
need_process(g) ==
    LET limit == Min(g.capacity, 150)
    IN  \/ Len(g.pairwise) >= limit
        \/ Len(g.setwise) >= limit
        \/ Len(g.groupwise) >= limit
        \/ Len(g.plurality) >= limit

BatchLen(b) == Len(b.pairwise) + Len(b.setwise) + Len(b.groupwise) + Len(b.plurality)

\* ------------------------------------------------------------- KV scripts
\* LUA_SCRIPT_BATCH_IP_COUNTER_SCRIPT: one INCR (and EXPIRE) per key, in key
\* order, and one multiplier per key.  The run stays within the TTL.
RECURSIVE BatchIpCounterScript(_, _, _)
BatchIpCounterScript(counter, keys, c) ==
    IF keys = <<>> THEN [counter |-> counter, results |-> <<>>]
    ELSE LET key == Head(keys)
             current == counter[key] + 1
             multiplier ==
                 IF c.max_ip_limit < 0 \/ current <= c.max_ip_limit
                 THEN c.base_multiplier
                 ELSE c.low_multiplier
             rest == BatchIpCounterScript([counter EXCEPT ![key] = current], Tail(keys), c)
         IN  [counter |-> rest.counter, results |-> <<multiplier>> \o rest.results]

\* One iteration of the loop of LUA_SCRIPT_BATCH_SCORE_UPDATE_SCRIPT.
ScoreUpdateStepSameSign(kv, u) ==
    [stats  |-> [kv.stats EXCEPT ![u.topic] =
                    HIncrBy(HIncrBy(@, <<u.win, "win">>, u.multiplier),
                            <<u.lose, "lose">>, u.multiplier)],
     matrix |-> [kv.matrix EXCEPT ![u.topic] =
                    HIncrBy(HIncrBy(@, <<u.win, u.lose>>, u.multiplier),
                            <<u.lose, u.win>>, u.multiplier)],
     valid  |-> [kv.valid EXCEPT ![u.topic] = @ + 1]]

ScoreUpdateStepLoseDown(kv, u) ==
    [stats  |-> [kv.stats EXCEPT ![u.topic] =
                    HIncrBy(HIncrBy(@, <<u.win, "win">>, u.multiplier),
                            <<u.lose, "lose">>, -u.multiplier)],
     matrix |-> [kv.matrix EXCEPT ![u.topic] =
                    HIncrBy(HIncrBy(@, <<u.win, u.lose>>, u.multiplier),
                            <<u.lose, u.win>>, -u.multiplier)],
     valid  |-> [kv.valid EXCEPT ![u.topic] = @ + 1]]

ScoreUpdateStep(kv, u) ==
    [stats  |-> [kv.stats EXCEPT ![u.topic] =
                    HIncrBy(HIncrBy(@, <<u.win, "win">>, u.multiplier),
                            <<u.lose, "lose">>, u.multiplier)],
     matrix |-> [kv.matrix EXCEPT ![u.topic] =
                    HIncrBy(HIncrBy(@, <<u.win, u.lose>>, u.multiplier),
                            <<u.lose, u.win>>, -u.multiplier)],
     valid  |-> [kv.valid EXCEPT ![u.topic] = @ + 1]]

\* LUA_SCRIPT_BATCH_SCORE_UPDATE_SCRIPT on the flattened updates (four
\* arguments per update, so the argument count is a multiple of 4).
RECURSIVE BatchScoreUpdateScript(_, _)
BatchScoreUpdateScript(kv, updates) ==
    IF updates = <<>> THEN kv
    ELSE BatchScoreUpdateScript(ScoreUpdateStep(kv, Head(updates)), Tail(updates))

\* The 1v1 record script: HINCRBY {topic}:op_counter {min}:{max} 1 per update.
RECURSIVE BatchRecord1v1Script(_, _)
BatchRecord1v1Script(counter, args2) ==
    IF args2 = <<>> THEN counter
    ELSE BatchRecord1v1Script(
             [counter EXCEPT ![Head(args2).topic] =
                 HIncrBy(@, <<Head(args2).min_id, Head(args2).max_id>>, 1)],
             Tail(args2))

\* ------------------------------------------------- pairwise flush (proc.rs)
\* calculate_pairwise_multipliers: one key per ballot, the distinct IPs in
\* the HashSet's iteration order ipsVec, zipped with the script's results.
calculate_pairwise_multipliers(ballots, c, counter, ipsVec) ==
    LET keys == [i \in 1..Len(ballots) |-> <<ballots[i].topic, ballots[i].ip>>]
        r == BatchIpCounterScript(counter, keys, c)
        n == Min(Len(ipsVec), Len(r.results))
    IN  [counter |-> r.counter,
         script_results |-> r.results,
         results |-> [ip \in {ipsVec[j] : j \in 1..n} |->
                         r.results[CHOOSE j \in 1..n : ipsVec[j] = ip]]]

\* The multiplier looked up for one ballot (unwrap_or(low_multiplier)).
MultiplierOf(ip_multipliers, item, c) ==
    IF item.ip \in DOMAIN ip_multipliers THEN ip_multipliers[item.ip]
    ELSE c.low_multiplier

\* score_updates of process_pairwise_ballot_batch: one update per ballot.
ScoreUpdates(ballots, ip_multipliers, c) ==
    [i \in 1..Len(ballots) |->
        [topic |-> ballots[i].topic, win |-> ballots[i].win, lose |-> ballots[i].lose,
         multiplier |-> MultiplierOf(ip_multipliers, ballots[i], c)]]

\* args2 of batch_update_scores: (topic_id, min_id, max_id) per update.
Args2(updates) ==
    [i \in 1..Len(updates) |->
        [topic |-> updates[i].topic,
         min_id |-> IF updates[i].win < updates[i].lose THEN updates[i].win ELSE updates[i].lose,
         max_id |-> IF updates[i].win < updates[i].lose THEN updates[i].lose ELSE updates[i].win]]

\* grouped_ballots[topic]: the StoredBallots of one topic, in batch order.
RECURSIVE GroupedBallots(_, _, _, _)
GroupedBallots(ballots, ip_multipliers, c, topic) ==
    IF ballots = <<>> THEN <<>>
    ELSE LET item == Head(ballots)
             rest == GroupedBallots(Tail(ballots), ip_multipliers, c, topic)
         IN  IF item.topic = topic
             THEN <<[ballot |-> item,
                     multiplier |-> MultiplierOf(ip_multipliers, item, c)]>> \o rest
             ELSE rest

BatchTopics(ballots) == {ballots[i].topic : i \in 1..Len(ballots)}
BatchIps(ballots) == {ballots[i].ip : i \in 1..Len(ballots)}

\* The store after insert_many succeeded for the topic groups in done.
ArchiveInsert(arch, ballots, ip_multipliers, c, done) ==
    [t \in Topics |->
        IF t \in done THEN arch[t] \o GroupedBallots(ballots, ip_multipliers, c, t)
        ELSE arch[t]]

\* The prefixes of the sequence q.
Prefixes(q) == {SubSeq(q, 1, n) : n \in 0..Len(q)}

\* save_ballots_to_file: the ballots are appended to the log of their
\* variant, one line each; when the file cannot be opened nothing is
\* written, and a failed write ends the loop, so that any prefix of the
\* ballots may be what the file got.
save_ballots_to_file(ballots) == Prefixes(ballots)

\* save_failed_ballots: save_ballots_to_file for each variant in turn; what
\* the log files may hold afterwards.
save_failed_ballots(log, b) ==
    {log \o pw \o sw \o gw \o pl :
        pw \in save_ballots_to_file(b.pairwise), sw \in save_ballots_to_file(b.setwise),
        gw \in save_ballots_to_file(b.groupwise), pl \in save_ballots_to_file(b.plurality)}

\* --------------------------------------------- BallotProcessor (proc.rs)
\* for attempt in 1..=3
MaxAttempts == 3

\* No attempt is running.
IdleFlush == [pc |-> "idle", ip_multipliers |-> <<>>, script_results |-> <<>>, done |-> {}]

\* An attempt at its first store call, the IP-counter script.
FirstCall == [pc |-> "ip_counter", ip_multipliers |-> <<>>, script_results |-> <<>>, done |-> {}]

\* BallotProcessor::submit_ballot: a send on the unbounded channel; it fails
\* only when the receiver is gone.
submit_ballot(b) ==
    /\ ~closed
    /\ channel' = Append(channel, [b EXCEPT !.seq = nextSeq + 1])
    /\ nextSeq' = nextSeq + 1

\* A holder of the BallotProcessor handle submits ballot b.
caller_submits(b) ==
    /\ nextSeq < MaxBallots
    /\ submit_ballot(b)
    /\ UNCHANGED <<cfg, closed, worker, groups, attempt, flush, batch, ticks, stats, failedLog, faults>>
    /\ UNCHANGED <<kvVars, archive, restVars>>

\* The Ok arm of process_batch_with_retry.
StatsAfterSuccess(s, b) ==
    [s EXCEPT !.total_processed = @ + BatchLen(b),
              !.successful_batches = @ + 1]

\* The Err arm of the last attempt.
StatsAfterFailure(s) ==
    [s EXCEPT !.failed_batches = @ + 1]

\* attempt == 3
IsLastAttempt(a) == a = MaxAttempts

\* process_batch_with_retry returns to batch_processor_task, which sets
\* last_flush; after the flush of the shutdown path the task leaves its loop.
flush_returns(next_worker) ==
    /\ attempt' = 0
    /\ flush' = IdleFlush
    /\ batch' = EmptyBatch
    /\ ticks' = 0
    /\ worker' = IF next_worker = "draining" THEN "done" ELSE next_worker

\* The head of process_batch_with_retry on the buffers g: take_all, the
\* early return on an empty batch, and the first attempt up to its first
\* store call.  A batch without Pairwise ballots makes no store call:
\* process_pairwise_ballot_batch returns Ok at once and the Ok arm runs.
begin_flush(g, next_worker) ==
    /\ groups' = take_all(g)
    /\ IF BatchLen(taken(g)) = 0
       THEN /\ flush_returns(next_worker)
            /\ stats' = stats
       ELSE IF taken(g).pairwise = <<>>
       THEN /\ flush_returns(next_worker)
            /\ stats' = StatsAfterSuccess(stats, taken(g))
       ELSE /\ attempt' = 1
            /\ flush' = FirstCall
            /\ batch' = taken(g)
            /\ ticks' = ticks
            /\ worker' = next_worker
            /\ stats' = stats

\* batch_processor_task, branch receiver.recv() = Some(ballot).
recv_ballot ==
    /\ worker = "running"
    /\ attempt = 0
    /\ channel # <<>>
    /\ channel' = Tail(channel)
    /\ \E max_wait_elapsed \in BOOLEAN :
          IF need_process(add(groups, Head(channel))) \/ max_wait_elapsed
          THEN begin_flush(add(groups, Head(channel)), "running")
          ELSE /\ groups' = add(groups, Head(channel))
               /\ UNCHANGED <<attempt, flush, batch, ticks, worker, stats>>
    /\ UNCHANGED <<cfg, closed, failedLog, nextSeq, faults>>
    /\ UNCHANGED <<kvVars, archive, restVars>>

\* Ticks since last_flush was set from which last_flush.elapsed() >=
\* flush_interval is certain: a tick that is up to 5 ms late keeps the
\* schedule, so the second tick after a flush may come less than
\* flush_interval after last_flush; the third comes a full period later.
CertainTicks == 2

\* batch_processor_task, branch ticker.tick().
tick ==
    /\ worker = "running"
    /\ attempt = 0
    /\ \E interval_elapsed \in (IF ticks >= CertainTicks THEN {TRUE} ELSE BOOLEAN) :
          IF ~is_empty(groups) /\ interval_elapsed
          THEN begin_flush(groups, "running")
          ELSE /\ ticks' = Min(ticks + 1, CertainTicks)
               /\ UNCHANGED <<groups, attempt, flush, batch, worker, stats>>
    /\ UNCHANGED <<cfg, channel, closed, failedLog, nextSeq, faults>>
    /\ UNCHANGED <<kvVars, archive, restVars>>

\* A store call of the running attempt returned an error and the Err arm of
\* process_batch_with_retry runs: the last attempt counts the batch as
\* failed and hands it to save_failed_ballots; an earlier one sleeps 100 ms
\* and starts the next attempt.
attempt_failed ==
    /\ faults < MaxFaults
    /\ faults' = faults + 1
    /\ IF IsLastAttempt(attempt)
       THEN /\ stats' = StatsAfterFailure(stats)
            /\ failedLog' \in save_failed_ballots(failedLog, batch)
            /\ flush_returns(worker)
       ELSE /\ attempt' = attempt + 1
            /\ flush' = FirstCall
            /\ UNCHANGED <<batch, ticks, worker, stats, failedLog>>
    /\ UNCHANGED <<kvVars, archive>>

\* The last store call of the attempt returned Ok: the Ok arm.
attempt_succeeded ==
    /\ stats' = StatsAfterSuccess(stats, batch)
    /\ flush_returns(worker)
    /\ UNCHANGED <<failedLog, faults>>

\* score_updates of the running attempt.
FlushUpdates == ScoreUpdates(batch.pairwise, flush.ip_multipliers, cfg)

\* calculate_pairwise_multipliers of the running attempt: the IP-counter
\* script is invoked.
flush_ip_counter ==
    /\ attempt \in 1..MaxAttempts
    /\ flush.pc = "ip_counter"
    /\ \/ attempt_failed
       \/ \E ipsVec \in IterationOrders(BatchIps(batch.pairwise)) :
             LET m == calculate_pairwise_multipliers(batch.pairwise, cfg, ip_counter, ipsVec)
             IN  /\ ip_counter' = m.counter
                 /\ flush' = [pc |-> "score_update", ip_multipliers |-> m.results,
                              script_results |-> m.script_results, done |-> {}]
                 /\ UNCHANGED <<attempt, batch, ticks, worker, stats, failedLog, faults>>
                 /\ UNCHANGED <<op_stats, op_matrix, op_counter, valid_ballots_count, archive>>
    /\ UNCHANGED <<cfg, channel, closed, groups, nextSeq, restVars>>

\* batch_update_scores of the running attempt: the score update script is
\* invoked.
flush_score_update ==
    /\ attempt \in 1..MaxAttempts
    /\ flush.pc = "score_update"
    /\ \/ attempt_failed
       \/ LET kv2 == BatchScoreUpdateScript(
                         [stats |-> op_stats, matrix |-> op_matrix,
                          valid |-> valid_ballots_count], FlushUpdates)
          IN  /\ op_stats' = kv2.stats
              /\ op_matrix' = kv2.matrix
              /\ valid_ballots_count' = kv2.valid
              /\ flush' = [flush EXCEPT !.pc = "record_1v1"]
              /\ UNCHANGED <<attempt, batch, ticks, worker, stats, failedLog, faults>>
              /\ UNCHANGED <<op_counter, ip_counter, archive>>
    /\ UNCHANGED <<cfg, channel, closed, groups, nextSeq, restVars>>

\* batch_update_scores of the running attempt: the 1v1 record script is
\* invoked.
flush_record_1v1 ==
    /\ attempt \in 1..MaxAttempts
    /\ flush.pc = "record_1v1"
    /\ \/ attempt_failed
       \/ /\ op_counter' = BatchRecord1v1Script(op_counter, Args2(FlushUpdates))
          /\ flush' = [flush EXCEPT !.pc = "insert_many"]
          /\ UNCHANGED <<attempt, batch, ticks, worker, stats, failedLog, faults>>
          /\ UNCHANGED <<op_stats, op_matrix, valid_ballots_count, ip_counter, archive>>
    /\ UNCHANGED <<cfg, channel, closed, groups, nextSeq, restVars>>

\* One turn of the loop over grouped_ballots of the running attempt, in the
\* HashMap's iteration order: insert_many of the StoredBallots of topic t;
\* after the last topic process_pairwise_ballot_batch returns Ok.
flush_insert_many(t) ==
    /\ attempt \in 1..MaxAttempts
    /\ flush.pc = "insert_many"
    /\ t \in BatchTopics(batch.pairwise) \ flush.done
    /\ \/ attempt_failed
       \/ /\ archive' = ArchiveInsert(archive, batch.pairwise, flush.ip_multipliers, cfg, {t})
          /\ IF flush.done \cup {t} = BatchTopics(batch.pairwise)
             THEN attempt_succeeded
             ELSE /\ flush' = [flush EXCEPT !.done = @ \cup {t}]
                  /\ UNCHANGED <<attempt, batch, ticks, worker, stats, failedLog, faults>>
          /\ UNCHANGED kvVars
    /\ UNCHANGED <<cfg, channel, closed, groups, nextSeq, restVars>>

\* One attempt of process_batch_with_retry advances by one store call.
flush_attempt ==
    \/ flush_ip_counter
    \/ flush_score_update
    \/ flush_record_1v1
    \/ \E t \in Topics : flush_insert_many(t)

\* Every BallotProcessor handle (sender) is dropped.
close_channel ==
    /\ ~closed
    /\ closed' = TRUE
    /\ UNCHANGED <<cfg, channel, worker, groups, attempt, flush, batch, ticks, stats,
                   failedLog, nextSeq, faults>>
    /\ UNCHANGED <<kvVars, archive, restVars>>

\* batch_processor_task, branch receiver.recv() = None: graceful shutdown.
recv_none ==
    /\ worker = "running"
    /\ attempt = 0
    /\ channel = <<>>
    /\ closed
    /\ IF ~is_empty(groups)
       THEN begin_flush(groups, "draining")
       ELSE /\ worker' = "done"
            /\ UNCHANGED <<groups, attempt, flush, batch, ticks, stats>>
    /\ UNCHANGED <<cfg, channel, closed, failedLog, nextSeq, faults>>
    /\ UNCHANGED <<kvVars, archive, restVars>>

\* ------------------------------------- /ballot handlers (portable-service)
\* Topic ids a request may name; "T3" is in no collection.
TopicIds == Topics \cup {"T3"}
\* Topic ids a /results request may name; "T4" is in no collection.
QueryTopicIds == TopicIds \cup {"T4", "T5"}
\* Ballot ids /ballot/new can hand out ("{snowflake}-{random}", all distinct).
BallotIds == 1..MaxChallenges
\* The candidate pool of the Pairwise topic.
CandidatePool == <<1, 2>>
\* The (winner, loser) pairs a save request may carry; 3 is in no challenge.
RequestPairs == {<<1, 2>>, <<2, 1>>, <<1, 1>>, <<1, 3>>}

\* The /ballot/save requests: topic_type tag, topic_id, ballot_id, winner,
\* loser (the non-Pairwise payloads are not inspected by the handler).
SaveRequests ==
    { [topic_type |-> "Pairwise", topic_id |-> "T1", ballot_id |-> i,
       winner |-> wl[1], loser |-> wl[2]] : i \in BallotIds, wl \in RequestPairs }
    \cup { [topic_type |-> "Pairwise", topic_id |-> t, ballot_id |-> 1, winner |-> 1, loser |-> 2] :
        t \in {"T2", "T3"} }
    \cup { [topic_type |-> "Setwise", topic_id |-> t, ballot_id |-> 1, winner |-> 0, loser |-> 0] :
        t \in {"T1", "T2"} }

NoResponse == [n |-> 0, message |-> "none"]

\* format!("{}:ballot:{}", topic_id, ballot_id)
ballot_key(topic_id, ballot_id) == <<topic_id, "ballot", ballot_id>>

\* VotingTopic::is_topic_active at an instant of phase ph of the topic.
is_topic_active(topic, ph) == topic.is_active /\ ph = "open"

\* VotingTopicType::matches_request
matches_request(topic_type, req) == topic_type = req.topic_type

\* select_operators: two entries at distinct positions of the pool.
select_operators(pool) ==
    {<<pool[ij[1]], pool[ij[2]]>> :
        ij \in {p \in (DOMAIN pool) \X (DOMAIN pool) : p[1] # p[2]}}

\* The clock passes open_time, then close_time, of topic t.
clock_passes(t) ==
    /\ t \in DOMAIN topic_table
    /\ topic_table[t].phase # "after"
    /\ topic_table' = [topic_table EXCEPT ![t].phase =
                          IF @ = "before" THEN "open" ELSE "after"]
    /\ UNCHANGED <<ballot_cache_store, issued, started, inflight, response, passed, create_response, creating>>
    /\ UNCHANGED <<aggVars, kvVars, archive, natsVars, topicVars, resultVars>>

\* No /ballot/new request has been answered.
NoCreateResponse == [topic |-> "none", message |-> "none", left |-> 0, right |-> 0]

\* A /ballot/new answer without a challenge.
CreateError(t, m) == [topic |-> t, message |-> m, left |-> 0, right |-> 0]

\* POST /ballot/new for topic t up to the await of get_topic: a failed
\* lookup and a missing topic answer TargetTopicNotFound, a topic that is
\* not Active answers TargetTopicNotActive, otherwise the handler goes on
\* with the topic it read.
ballot_create_get_topic(t) ==
    /\ issued + Cardinality(creating) < MaxChallenges
    /\ \E lookup \in {"ok", "err"} :
          IF lookup = "err" \/ t \notin DOMAIN topic_table
          THEN /\ create_response' = CreateError(t, "TargetTopicNotFound")
               /\ creating' = creating
          ELSE IF ~is_topic_active(topic_table[t], topic_table[t].phase)
          THEN /\ create_response' = CreateError(t, "TargetTopicNotActive")
               /\ creating' = creating
          ELSE /\ creating' = creating \cup
                      {[topic |-> t, topic_type |-> topic_table[t].topic_type,
                        pc |-> "get_candidate_pool", id |-> 0, pair |-> <<0, 0>>]}
               /\ create_response' = create_response
    /\ UNCHANGED <<topic_table, ballot_cache_store, issued, started, inflight, response, passed>>
    /\ UNCHANGED <<aggVars, kvVars, archive, natsVars, topicVars, resultVars>>

\* ballot_create_fn from the await of get_candidate_pool to the await of
\* the insert: no pool (an empty one, or a failed lookup of the topic)
\* answers TargetTopicNotFound; a topic that is not Pairwise answers
\* UnsupportedTopicType; a pool of fewer than two entries answers
\* InsufficientOperators; otherwise two operators are selected and a new
\* ballot id is generated.
ballot_create_get_candidate_pool(c) ==
    /\ c \in creating
    /\ c.pc = "get_candidate_pool"
    /\ \E lookup \in {"ok", "err"} :
          LET pool == topic_table[c.topic].pool
              reply(m) == /\ create_response' = CreateError(c.topic, m)
                          /\ creating' = creating \ {c}
                          /\ issued' = issued
          IN  IF lookup = "err" \/ pool = <<>> THEN reply("TargetTopicNotFound")
              ELSE IF c.topic_type # "Pairwise" THEN reply("UnsupportedTopicType")
              ELSE IF Len(pool) < 2 THEN reply("InsufficientOperators")
              ELSE \E lr \in select_operators(pool) :
                      /\ creating' = (creating \ {c}) \cup
                             {[c EXCEPT !.pc = "insert", !.id = issued + 1, !.pair = lr]}
                      /\ issued' = issued + 1
                      /\ create_response' = create_response
    /\ UNCHANGED <<topic_table, ballot_cache_store, started, inflight, response, passed>>
    /\ UNCHANGED <<aggVars, kvVars, archive, natsVars, topicVars, resultVars>>

\* ballot_create_fn from the insert to the response: the pair is stored
\* under the ballot key and the challenge is answered, whatever the topic
\* has become since it was read.
ballot_create_insert(c) ==
    /\ c \in creating
    /\ c.pc = "insert"
    /\ creating' = creating \ {c}
    /\ ballot_cache_store' =
           [k \in DOMAIN ballot_cache_store \cup {ballot_key(c.topic, c.id)} |->
               IF k = ballot_key(c.topic, c.id) THEN c.pair ELSE ballot_cache_store[k]]
    /\ create_response' =
           [topic |-> c.topic, message |-> "OK", left |-> c.pair[1], right |-> c.pair[2]]
    /\ UNCHANGED <<topic_table, issued, started, inflight, response, passed>>
    /\ UNCHANGED <<aggVars, kvVars, archive, natsVars, topicVars, resultVars>>

\* ballot_skip_fn: for an Active topic the handler calls
\* ballot_cache_store.remove, without an await, and answers OK (lines
\* 36-44).  On the DashMap lib.rs 136 builds, remove is synchronous and the
\* challenge is taken out of the store; on the moka::future::Cache state.rs
\* 52 declares, remove only builds a future, which is dropped unpolled, and
\* the challenge stays.  The sources hold both typings of the store, and
\* either outcome is taken.
ballot_skip_fn(t, id) ==
    /\ t \in DOMAIN topic_table
    /\ is_topic_active(topic_table[t], topic_table[t].phase)
    /\ ballot_key(t, id) \in DOMAIN ballot_cache_store
    /\ \/ ballot_cache_store' =
             [k \in DOMAIN ballot_cache_store \ {ballot_key(t, id)} |-> ballot_cache_store[k]]
       \/ ballot_cache_store' = ballot_cache_store
    /\ UNCHANGED <<topic_table, issued, started, inflight, response, passed, create_response, creating>>
    /\ UNCHANGED <<aggVars, kvVars, archive, natsVars, topicVars, resultVars>>

\* The match on get_topic of ballot_save_fn, arm by arm.  The guards call
\* is_topic_active twice; ph2 is the phase at the second call.
TopicMatch(req, lookup, ph2) ==
    IF lookup = "err" THEN "TargetTopicNotFound"
    ELSE IF req.topic_id \notin DOMAIN topic_table THEN "TargetTopicNotFound"
    ELSE LET topic == topic_table[req.topic_id]
         IN  IF is_topic_active(topic, topic.phase) /\ matches_request(topic.topic_type, req)
                 THEN "pass"
             ELSE IF ~matches_request(topic.topic_type, req) THEN "RequestTopicTypeMismatch"
             ELSE IF ~is_topic_active(topic, ph2) THEN "TargetTopicNotActive"
             ELSE "InternalError"

\* The phases the clock can be in shortly after phase ph.
LaterPhases(ph) ==
    IF ph = "before" THEN {"before", "open"}
    ELSE IF ph = "open" THEN {"open", "after"}
    ELSE {"after"}

\* ballot_save_fn up to the await of get_topic: the request is answered by
\* one of the rejecting arms, or goes on to the challenge lookup.
ballot_save_get_topic(req) ==
    /\ started < MaxSaves
    /\ started' = started + 1
    /\ \E lookup \in {"ok", "err"} :
       \E ph2 \in (IF req.topic_id \in DOMAIN topic_table
                   THEN LaterPhases(topic_table[req.topic_id].phase) ELSE {"open"}) :
          LET arm == TopicMatch(req, lookup, ph2)
          IN  IF arm = "pass"
              THEN /\ inflight' = inflight \cup {[n |-> started + 1, req |-> req, pc |-> "remove",
                                                   store_value |-> <<0, 0>>]}
                   /\ response' = response
              ELSE /\ inflight' = inflight
                   /\ response' = [n |-> started + 1, message |-> arm]
    /\ UNCHANGED <<topic_table, ballot_cache_store, issued, passed, create_response, creating>>
    /\ UNCHANGED <<aggVars, kvVars, archive, natsVars, topicVars, resultVars>>

\* DashMap::remove: the entry under key is taken out of the store.
RemoveKeepsEntry(store, key) == store

Remove(store, key) == [k \in DOMAIN store \ {key} |-> store[k]]

WinnerIsLoserNever(winner, loser) == FALSE

\* winner == loser
WinnerIsLoser(winner, loser) == winner = loser

\* valid_ids.contains(&winner) && valid_ids.contains(&loser)
ValidIds(left, right, winner, loser) ==
    winner \in {left, right} /\ loser \in {left, right}

\* The ballot built by ballot_save_fn for a Pairwise request.
PairwiseBallotOf(req, ip) ==
    [variant |-> "pairwise", topic |-> req.topic_id, ip |-> ip,
     win |-> req.winner, lose |-> req.loser, seq |-> 0]

\* ballot_save_fn, lines 68-80: DashMap::remove takes the challenge out of
\* the store and hands it to the handler; without one the request is
\* answered BallotNotFound.  The handlers run on several worker threads that
\* share the store, so other requests run before this one goes on.
ballot_save_remove(s) ==
    /\ s \in inflight
    /\ s.pc = "remove"
    /\ LET key == ballot_key(s.req.topic_id, s.req.ballot_id)
           found == key \in DOMAIN ballot_cache_store
       IN  /\ ballot_cache_store' = Remove(ballot_cache_store, key)
           /\ IF found
              THEN /\ inflight' = (inflight \ {s}) \cup
                          {[s EXCEPT !.pc = "submit", !.store_value = ballot_cache_store[key]]}
                   /\ passed' = [passed EXCEPT ![s.req.ballot_id] = @ + 1]
                   /\ response' = response
              ELSE /\ inflight' = inflight \ {s}
                   /\ passed' = passed
                   /\ response' = [n |-> s.n, message |-> "BallotNotFound"]
    /\ UNCHANGED <<topic_table, issued, started, create_response, creating>>
    /\ UNCHANGED <<aggVars, kvVars, archive, natsVars, topicVars, resultVars>>

\* ballot_save_fn, lines 82-165: the request is matched, winner and loser
\* are checked against the challenge taken from the store, and the ballot is
\* sent to the aggregator, which fails only when the receiver is gone.
ballot_save_submit(s) ==
    /\ s \in inflight
    /\ s.pc = "submit"
    /\ inflight' = inflight \ {s}
    /\ LET store_value == s.store_value
           reply(m) == response' = [n |-> s.n, message |-> m]
           no_submit == UNCHANGED <<channel, nextSeq>>
       IN  IF s.req.topic_type # "Pairwise" THEN reply("InternalError") /\ no_submit
           ELSE IF WinnerIsLoser(s.req.winner, s.req.loser)
               THEN reply("BallotWinnerCannotBeLoser") /\ no_submit
           ELSE IF ~ValidIds(store_value[1], store_value[2], s.req.winner, s.req.loser)
               THEN reply("InvalidBallotCode") /\ no_submit
           ELSE IF closed THEN reply("InternalError") /\ no_submit
           ELSE \E ip \in {"ipA"} :
                   /\ submit_ballot(PairwiseBallotOf(s.req, ip))
                   /\ reply("OK")
    /\ UNCHANGED <<topic_table, ballot_cache_store, issued, started, passed, create_response, creating>>
    /\ UNCHANGED <<cfg, closed, worker, groups, attempt, flush, batch, ticks, stats, failedLog, faults>>
    /\ UNCHANGED <<kvVars, archive, natsVars, topicVars, resultVars>>

\* The handlers before any request, the Pairwise topic T1 in phase ph of
\* its voting window.
InitApiAt(ph) ==
    /\ topic_table =
          [t \in Topics |->
              IF t = "T1" THEN [topic_type |-> "Pairwise", is_active |-> TRUE, phase |-> ph,
                                pool |-> CandidatePool]
              ELSE [topic_type |-> "Setwise", is_active |-> TRUE, phase |-> "open",
                    pool |-> CandidatePool]]
    /\ create_response = NoCreateResponse
    /\ creating = {}
    /\ ballot_cache_store = EmptyHash
    /\ issued = 0
    /\ started = 0
    /\ inflight = {}
    /\ response = NoResponse
    /\ passed = [i \in BallotIds |-> 0]

InitApi == InitApiAt("before")

\* ------------------------------------- save_score consumer (nats-service)
DLQ_MAX_RETRIES == 5
CONSUMER_BATCH_SIZE == 100

\* The payloads producers publish on ark-vote.save_score: Pairwise ballots
\* naming challenge code 1 (stored as "1,2"), code 2 (stored malformed) or
\* code 3 (not stored before /ballot/new issues it), and a payload that does
\* not decode.
NatsPayloads ==
    { [kind |-> "pairwise", topic |-> "T1", code |-> 1, ip |-> "ipA", win |-> 1, lose |-> 2],
      [kind |-> "pairwise", topic |-> "T1", code |-> 1, ip |-> "ipA", win |-> 1, lose |-> 3],
      [kind |-> "pairwise", topic |-> "T1", code |-> 2, ip |-> "ipB", win |-> 1, lose |-> 2],
      [kind |-> "pairwise", topic |-> "T1", code |-> 3, ip |-> "ipA", win |-> 2, lose |-> 1],
      [kind |-> "setwise", topic |-> "T1", code |-> 4, ip |-> "ipA", win |-> 0, lose |-> 0],
      [kind |-> "garbage", topic |-> "", code |-> 0, ip |-> "", win |-> 0, lose |-> 0] }

\* AppError variants by name.
InputErrors == {"InvalidParticipants", "InvalidBallotCode", "InvalidBallotFormat"}

\* AppError::is_need_send_to_dlq
is_need_send_to_dlq(e) == e \notin InputErrors

\* A GET that finds no key.
Nil == << >>

HDel(h, f) == [k \in DOMAIN h \ {f} |-> h[k]]

\* format!("ballot:{code}") of validate_ballot: a key with no topic part.
legacy_ballot_key(code) == <<"", "ballot", code>>

\* Script arguments and the field names concatenated from them: a string
\* or a decimal integer.
Str(x) == [s |-> x, i |-> 0, isint |-> FALSE]
Num(n) == [s |-> "", i |-> n, isint |-> TRUE]
Field1(x, suffix) == <<x.s, x.i, suffix>>
Field2(x, y) == <<x.s, x.i, y.s, y.i>>

\* LUA_SCRIPT_GET_DEL_MANY
RECURSIVE GetDelManyScript(_, _)
GetDelManyScript(codes, keys) ==
    IF keys = <<>> THEN [values |-> <<>>, codes |-> codes]
    ELSE LET key == Head(keys)
             present == key \in DOMAIN codes
             rest == GetDelManyScript(IF present THEN HDel(codes, key) ELSE codes, Tail(keys))
         IN  [values |-> <<IF present THEN codes[key] ELSE Nil>> \o rest.values,
              codes |-> rest.codes]

\* parse_ballot_info / the match in validate_pairwise_ballots: the error of
\* a looked-up value, "none" when it parses to (left, right).
ValidationError(value) ==
    IF value = Nil THEN "InvalidBallotCode"
    ELSE IF Len(value) # 2 THEN "InvalidBallotFormat"
    ELSE "none"

\* validate_pairwise_ballots: one GETDEL per message in order; the results
\* are collected into a map keyed by ballot_id, a later entry replacing an
\* earlier one.
validate_pairwise_ballots(items, codes) ==
    LET keys == [i \in 1..Len(items) |-> ballot_key(items[i].payload.topic, items[i].payload.code)]
        r == GetDelManyScript(codes, keys)
        last(c) == CHOOSE i \in 1..Len(items) :
                      /\ items[i].payload.code = c
                      /\ \A j \in 1..Len(items) : items[j].payload.code = c => j <= i
    IN  [codes |-> r.codes,
         values |-> r.values,
         results |-> [c \in {items[i].payload.code : i \in 1..Len(items)} |-> r.values[last(c)]]]

\* LUA_SCRIPT_BATCH_IP_COUNTER_SCRIPT of nats-service.
RECURSIVE NatsBatchIpCounterScript(_, _, _)
NatsBatchIpCounterScript(counter, keys, c) ==
    IF keys = <<>> THEN [counter |-> counter, results |-> <<>>]
    ELSE LET key == Head(keys)
             current == HGet(counter, key) + 1
             multiplier ==
                 IF c.max_ip_limit < 0 \/ current <= c.max_ip_limit
                 THEN c.base_multiplier
                 ELSE c.low_multiplier
             rest == NatsBatchIpCounterScript(HIncrBy(counter, key, 1), Tail(keys), c)
         IN  [counter |-> rest.counter, results |-> <<multiplier>> \o rest.results]

\* calculate_pairwise_multipliers of save_score.rs.
nats_calculate_pairwise_multipliers(items, c, counter, ipsVec) ==
    LET keys == [i \in 1..Len(items) |-> <<items[i].payload.topic, items[i].payload.ip>>]
        r == NatsBatchIpCounterScript(counter, keys, c)
        n == Min(Len(ipsVec), Len(r.results))
    IN  [counter |-> r.counter,
         script_results |-> r.results,
         results |-> [ip \in {ipsVec[j] : j \in 1..n} |->
                         r.results[CHOOSE j \in 1..n : ipsVec[j] = ip]]]

\* The four HINCRBY of one update of either score script.
NatsScoreStep(kv, win_id, lose_id, multiplier) ==
    [kv EXCEPT
        !.op_stats = HIncrBy(HIncrBy(@, Field1(win_id, "win"), multiplier),
                             Field1(lose_id, "lose"), multiplier),
        !.op_matrix = HIncrBy(HIncrBy(@, Field2(win_id, lose_id), multiplier),
                              Field2(lose_id, win_id), -multiplier)]

\* The loop of LUA_SCRIPT_BATCH_SCORE_UPDATE_SCRIPT over ARGV in triples; a
\* HINCRBY by a non-integer raises an error and ends the script.
RECURSIVE NatsScoreLoop(_, _)
NatsScoreLoop(kv, argv) ==
    IF argv = <<>> THEN [kv |-> kv, ok |-> TRUE]
    ELSE IF ~argv[3].isint THEN [kv |-> kv, ok |-> FALSE]
    ELSE NatsScoreLoop(NatsScoreStep(kv, argv[1], argv[2], argv[3].i), SubSeq(argv, 4, Len(argv)))

\* LUA_SCRIPT_BATCH_SCORE_UPDATE_SCRIPT of nats-service, invoked with ARGV
\* and no key: the argument count must be a multiple of 3, and the final
\* INCRBY by KEYS[1] = nil raises an error.
NatsBatchScoreUpdateScript(kv, argv) ==
    IF Len(argv) % 3 # 0 THEN [kv |-> kv, ok |-> FALSE]
    ELSE [kv |-> NatsScoreLoop(kv, argv).kv, ok |-> FALSE]

\* args of batch_update_scores: topic_id, win_id, lose_id, multiplier per
\* update, in the map's iteration order.
RECURSIVE NatsScoreArgs(_, _)
NatsScoreArgs(order, totals) ==
    IF order = <<>> THEN <<>>
    ELSE LET k == Head(order)
         IN  <<Str(k[1]), Num(k[2]), Num(k[3]), Num(totals[k])>>
             \o NatsScoreArgs(Tail(order), totals)

\* LUA_SCRIPT_UPDATE_SCORES
NatsScoreUpdateScript(kv, win, lose, multiplier) ==
    [NatsScoreStep(kv, Num(win), Num(lose), multiplier) EXCEPT !.total_valid_ballots = @ + 1]

\* The participants check shared by the batch and the single path.
InvalidParticipants(value, win, lose) ==
    \/ win \notin {value[1], value[2]}
    \/ lose \notin {value[1], value[2]}
    \/ win = lose

\* The error the batch finds for item i ("none": the ballot is valid).
ItemError(items, vresults, i) ==
    LET e == ValidationError(vresults[items[i].payload.code])
    IN  IF e # "none" THEN e
        ELSE IF InvalidParticipants(vresults[items[i].payload.code],
                                    items[i].payload.win, items[i].payload.lose)
             THEN "InvalidParticipants"
        ELSE "none"

NatsMultiplierOf(ip_multipliers, payload, c) ==
    IF payload.ip \in DOMAIN ip_multipliers THEN ip_multipliers[payload.ip]
    ELSE c.low_multiplier

RECURSIVE SumSeq(_)
SumSeq(q) == IF q = <<>> THEN 0 ELSE Head(q) + SumSeq(Tail(q))

RECURSIVE NatsStored(_, _, _, _)
NatsStored(valid, ip_multipliers, c, topic) ==
    IF valid = <<>> THEN <<>>
    ELSE LET rest == NatsStored(Tail(valid), ip_multipliers, c, topic)
         IN  IF Head(valid).payload.topic = topic
             THEN <<[ballot |-> Head(valid).payload,
                     multiplier |-> NatsMultiplierOf(ip_multipliers, Head(valid).payload, c)]>>
                  \o rest
             ELSE rest

\* The entries of q whose position, counted from i, is in S.
RECURSIVE KeepIndices(_, _, _)
KeepIndices(q, S, i) ==
    IF q = <<>> THEN <<>>
    ELSE (IF i \in S THEN <<Head(q)>> ELSE <<>>) \o KeepIndices(Tail(q), S, i + 1)

\* The KV and document stores of nats-service as one value.
NatsStores ==
    [codes |-> n_codes, ip |-> n_ip_counter, kv |-> n_kv, archive |-> n_archive]

\* (topic_id, win, lose) of a message: the key of its score update.
UpdateKey(m) == <<m.payload.topic, m.payload.win, m.payload.lose>>

\* A message published without the X-First-error-Timestamp header.
NoHeader == 0

\* DLQ_RETRY_DELAY, in seconds
DLQ_RETRY_DELAY == 10

IsPairwise(m) == m.payload.kind = "pairwise"
IsSetwise(m) == m.payload.kind = "setwise"
IsGroupwise(m) == m.payload.kind = "groupwise"
IsPlurality(m) == m.payload.kind = "plurality"
\* The payloads serde_json decodes as a Ballot.
IsBallot(m) == m.payload.kind \in Variants

\* A message as the stream holds it: the payload and the retry headers.
Undelivered(m) == [payload |-> m.payload, retry_count |-> m.retry_count, first_ts |-> m.first_ts]

\* The i-th message of a fetch.
Delivered(m, i) ==
    [payload |-> m.payload, retry_count |-> m.retry_count, first_ts |-> m.first_ts, pos |-> i]

\* No message in hand.
NoMessage ==
    [payload |-> [kind |-> "none", topic |-> "", code |-> 0, ip |-> "", win |-> 0, lose |-> 0],
     retry_count |-> 0, first_ts |-> NoHeader, pos |-> 0]

\* The consumer thread in process_save_score_messages at the top of its
\* loop: pc is the await it is at; messages the fetched messages
\* messages.next() has not yielded yet; pairwise, setwise, groupwise and
\* plurality the buffers of ballot_groups and, after take_all, of the loop
\* body; topics the grouped ballots still to insert; values the replies of
\* the GETDEL script by position and validation_results the map built from
\* them; ip_multipliers the map of calculate_pairwise_multipliers; valid the
\* positions of valid_ballots in the Pairwise batch; i the position of the
\* message in hand, cur that message, error the error it ended in, acked
\* whether one of its double_acks succeeded, fate what the retry ladder did
\* with it; first_error_timestamp and current_timestamp the clock readings
\* of handle_failed_messages, arm its caller; multiplier the one of
\* process_single_ballot.
ConsumerIdle ==
    [pc |-> "fetch", messages |-> <<>>, pairwise |-> <<>>, setwise |-> <<>>,
     groupwise |-> <<>>, plurality |-> <<>>, topics |-> {}, values |-> <<>>,
     validation_results |-> <<>>, ip_multipliers |-> <<>>, valid |-> {}, i |-> 0,
     cur |-> NoMessage, error |-> "none", acked |-> FALSE, fate |-> "none",
     first_error_timestamp |-> 0, current_timestamp |-> 0, arm |-> "none", multiplier |-> 0]

\* What the consumer did with the delivered message msg and the error its
\* processing ended in ("none": processed): republished, dead_lettered or
\* publish_failed on the retry ladder, acked or ack_failed when a double_ack
\* was all it got, unacked when no ack was issued; acked: one of its
\* double_acks succeeded.
Fate(msg, error, fate, acked) ==
    [payload |-> msg.payload, retry_count |-> msg.retry_count, first_ts |-> msg.first_ts,
     pos |-> msg.pos, error |-> error, fate |-> fate, acked |-> acked]

\* The consumer is done with message m: what it did joins results, and a
\* message none of whose double_acks succeeded stays with the stream as
\* unacked (its ack wait outlasts the iteration).
Finished(m, error, fate, acked) ==
    /\ results' = results \cup {Fate(m, error, fate, acked)}
    /\ unacked' = IF acked THEN unacked ELSE Append(unacked, Undelivered(m))

\* A KV call, a document-store call or a publish of the consumer fails: with
\* budgeted the failed calls count against max, otherwise any of them may
\* fail.
CallFails(budgeted, max) ==
    IF budgeted THEN faults < max /\ faults' = faults + 1 ELSE faults' = faults

\* A double_ack fails: counted against max with budgeted, and against
\* MaxAckFaults otherwise.
AckFails(budgeted, max) ==
    /\ faults < (IF budgeted THEN max ELSE MaxAckFaults)
    /\ faults' = faults + 1

\* The StoredBallot documents process_setwise_ballot_batch groups under topic.
RECURSIVE RawStored(_, _)
RawStored(ballots, topic) ==
    IF ballots = <<>> THEN <<>>
    ELSE (IF Head(ballots).payload.topic = topic
          THEN <<[ballot |-> Head(ballots).payload, multiplier |-> 1]>>
          ELSE <<>>) \o RawStored(Tail(ballots), topic)

\* The keys of grouped_ballots.
TopicsOf(ballots) == {ballots[k].payload.topic : k \in DOMAIN ballots}

\* handle_failed_messages up to its first await, at wall-clock time now:
\* the retry count and the first-error timestamp are read from the headers
\* of the message in hand (0 and now when absent) and the clock is read; at
\* DLQ_MAX_RETRIES or more recorded retries the DeadLetterMessage is
\* published next, otherwise the task sleeps.
EnterHandleFailed(c, arm, now) ==
    [c EXCEPT !.arm = arm,
              !.first_error_timestamp = IF c.cur.first_ts = NoHeader THEN now ELSE c.cur.first_ts,
              !.current_timestamp = now,
              !.pc = IF c.cur.retry_count >= DLQ_MAX_RETRIES THEN "publish_dlq" ELSE "sleep"]

\* The first position after i of the Pairwise batch that is in S (0: none).
NextIn(S, i) == IF \E j \in S : j > i THEN CHOOSE j \in S : j > i /\ \A k \in S : k > i => j <= k
                ELSE 0

\* The Ok arm of process_save_score_messages from the failed message after
\* position c.i on: the message goes into handle_failed_messages; after the
\* last one the loop starts over.
NextFailed(c, now) ==
    LET failed == (1..Len(c.pairwise)) \ c.valid
        j == NextIn(failed, c.i)
    IN  IF j = 0 THEN ConsumerIdle
        ELSE EnterHandleFailed([c EXCEPT !.i = j, !.cur = c.pairwise[j],
                                         !.error = ItemError(c.pairwise, c.validation_results, j),
                                         !.acked = FALSE, !.fate = "none"],
                               "ok", now)

\* The loop of process_pairwise_ballot_batch that double_acks valid_ballots,
\* from the one after position c.i on; after the last one the batch returns
\* Ok and the Ok arm begins.
NextValid(c, now) ==
    LET j == NextIn(c.valid, c.i)
    IN  IF j = 0 THEN NextFailed([c EXCEPT !.i = 0], now)
        ELSE [c EXCEPT !.pc = "ack_valid", !.i = j, !.cur = c.pairwise[j], !.error = "none",
                       !.acked = FALSE, !.fate = "none"]

\* The Err arm of process_save_score_messages from the message after
\* position c.i on: process_single_pairwise_fallback calls
\* process_single_ballot, which awaits the GETDEL of validate_ballot.
NextFallback(c) ==
    IF c.i >= Len(c.pairwise) THEN ConsumerIdle
    ELSE [c EXCEPT !.pc = "get_del", !.i = c.i + 1, !.cur = c.pairwise[c.i + 1],
                   !.error = "none", !.acked = FALSE, !.fate = "none", !.arm = "err",
                   !.multiplier = 0, !.valid = {}, !.topics = {}]

\* process_single_ballot returned Err(e) to process_single_pairwise_fallback:
\* an error that needs the DLQ goes into handle_failed_messages, any other
\* is logged; the message is double_acked next.
FallbackError(c, e, now) ==
    IF is_need_send_to_dlq(e)
    THEN EnterHandleFailed([c EXCEPT !.error = e], "err", now)
    ELSE [c EXCEPT !.error = e, !.pc = "ack_fallback"]

\* process_pairwise_ballot_batch up to its first await: an empty batch
\* returns Ok with no failed message, and the loop starts over.
EnterPairwise(c) ==
    IF c.pairwise = <<>> THEN ConsumerIdle ELSE [c EXCEPT !.pc = "get_del_many", !.topics = {}]

\* The buffers the loop body handles before the Pairwise batch, in order.
Stages == <<"setwise", "groupwise", "plurality">>

\* The loop body from buffer number k on, up to its next await: an empty
\* buffer is skipped.
RECURSIVE EnterStage(_, _)
EnterStage(c, k) ==
    IF k > Len(Stages) THEN EnterPairwise(c)
    ELSE IF c[Stages[k]] = <<>> THEN EnterStage(c, k + 1)
    ELSE [c EXCEPT !.pc = Stages[k], !.topics = TopicsOf(c[Stages[k]])]

StageOf(pc) == CHOOSE k \in DOMAIN Stages : Stages[k] = pc

\* A producer publishes payload p on ark-vote.save_score.
publish_save_score_upto(p, max) ==
    /\ published < max
    /\ published' = published + 1
    /\ stream' = Append(stream, [payload |-> p, retry_count |-> 0, first_ts |-> NoHeader])
    /\ UNCHANGED <<dlq, n_codes, n_ip_counter, n_kv, n_archive, results,
                   n_now, unacked, redelivered, consumer, dlqVars, skipVars, ncrVars>>
    /\ UNCHANGED <<aggVars, kvVars, archive, apiVars, topicVars, resultVars>>

publish_save_score(p) == publish_save_score_upto(p, MaxMessages)

\* consumer.fetch().max_messages(CONSUMER_BATCH_SIZE).messages() at the top
\* of the loop returns: up to CONSUMER_BATCH_SIZE of the messages awaiting
\* delivery are handed to the consumer.
save_score_fetch ==
    /\ consumer.pc = "fetch"
    /\ stream # <<>>
    /\ \E n \in 1..Min(Len(stream), CONSUMER_BATCH_SIZE) :
          /\ consumer' = [ConsumerIdle EXCEPT
                             !.pc = "next",
                             !.messages = [k \in 1..n |-> Delivered(stream[k], k)]]
          /\ stream' = SubSeq(stream, n + 1, Len(stream))
    /\ results' = {}
    /\ UNCHANGED <<dlq, n_codes, n_ip_counter, n_kv, n_archive, n_now, unacked, faults>>

\* messages.next() returns: a payload that decodes is pushed to the buffer
\* of its variant by BallotMessageGroup::add, one that does not is
\* double_acked next; at the end of the fetch the loop starts over when
\* ballot_groups is empty, and otherwise take_all hands the buffers to the
\* loop body.
save_score_messages_next ==
    /\ consumer.pc = "next"
    /\ IF consumer.messages = <<>>
       THEN consumer' =
                IF /\ consumer.pairwise = <<>> /\ consumer.setwise = <<>>
                   /\ consumer.groupwise = <<>> /\ consumer.plurality = <<>>
                THEN ConsumerIdle
                ELSE EnterStage(consumer, 1)
       ELSE LET m == Head(consumer.messages)
            IN  consumer' =
                    IF IsBallot(m)
                    THEN [consumer EXCEPT !.messages = Tail(@),
                                          ![m.payload.kind] = Append(@, m)]
                    ELSE [consumer EXCEPT !.messages = Tail(@), !.cur = m,
                                          !.pc = "ack_invalid"]
    /\ UNCHANGED <<stream, dlq, n_codes, n_ip_counter, n_kv, n_archive, results, n_now,
                   unacked, faults>>

\* The awaits at a double_ack: of an undecodable message (206), of a valid
\* message of the batch (396), in handle_failed_messages after the
\* dead-letter publish (722) and after the republish (741, 744), of a failed
\* message of the Ok arm (265) and of process_single_pairwise_fallback (667,
\* 679).
AckSites == {"ack_invalid", "ack_valid", "ack_dlq", "ack_retry", "ack_failed_message",
             "ack_fallback"}

\* msg.double_ack() returns: Ok, or an error that is only logged (the one
\* of process_single_pairwise_fallback is returned and logged by the loop).
\* The acks of handle_failed_messages are followed by the ack of its
\* caller; after any other the consumer is done with the message.
save_score_double_ack(budgeted, max) ==
    /\ consumer.pc \in AckSites
    /\ \E ok \in BOOLEAN :
          LET acked == consumer.acked \/ ok
              fate == IF consumer.fate # "none" THEN consumer.fate
                      ELSE IF ok THEN "acked" ELSE "ack_failed"
          IN  /\ IF acked THEN faults' = faults ELSE AckFails(budgeted, max)
              /\ IF consumer.pc \in {"ack_dlq", "ack_retry"}
                 THEN /\ consumer' =
                            [consumer EXCEPT !.acked = acked,
                                             !.pc = IF consumer.arm = "ok"
                                                    THEN "ack_failed_message"
                                                    ELSE "ack_fallback"]
                      /\ UNCHANGED <<results, unacked>>
                 ELSE /\ Finished(consumer.cur,
                                  IF consumer.pc = "ack_invalid" THEN "decode"
                                  ELSE consumer.error,
                                  fate, acked)
                      /\ consumer' =
                            IF consumer.pc = "ack_invalid"
                                THEN [consumer EXCEPT !.pc = "next", !.cur = NoMessage]
                            ELSE IF consumer.pc = "ack_valid" THEN NextValid(consumer, n_now)
                            ELSE IF consumer.pc = "ack_failed_message"
                                THEN NextFailed(consumer, n_now)
                            ELSE NextFallback(consumer)
    /\ UNCHANGED <<stream, dlq, n_codes, n_ip_counter, n_kv, n_archive, n_now>>

\* insert_many of one group of grouped_ballots returns, in
\* process_setwise_ballot_batch (process_groupwise_ballot_batch and
\* process_plurality_ballot_batch have the same body) and in
\* process_pairwise_ballot_batch: the groups are inserted in the iteration
\* order of the map, and the first insert_many that fails ends the call.
\* The result of a Setwise, Groupwise or Plurality batch is only logged and
\* none of its messages is acked; a failed Pairwise batch goes to the Err
\* arm, after the last insert of a successful one its valid messages are
\* double_acked.
save_score_insert_many(budgeted, max) ==
    /\ consumer.pc \in {"setwise", "groupwise", "plurality", "insert_many"}
    /\ \E topic \in consumer.topics : \E ok \in BOOLEAN :
          LET raw == consumer.pc # "insert_many"
              ballots == IF raw THEN consumer[consumer.pc] ELSE <<>>
              documents ==
                  IF raw THEN RawStored(ballots, topic)
                  ELSE NatsStored(KeepIndices(consumer.pairwise, consumer.valid, 1),
                                  consumer.ip_multipliers, cfg, topic)
              left == consumer.topics \ {topic}
              ended == ~ok \/ left = {}
              error == IF ok THEN "none" ELSE "MongoDB"
          IN  /\ IF ok THEN faults' = faults ELSE CallFails(budgeted, max)
              /\ n_archive' = IF ok THEN [n_archive EXCEPT ![topic] = @ \o documents]
                              ELSE n_archive
              /\ IF raw /\ ended
                 THEN /\ results' = results \cup
                            {Fate(ballots[k], error, "unacked", FALSE) : k \in DOMAIN ballots}
                      /\ unacked' = unacked \o [k \in DOMAIN ballots |-> Undelivered(ballots[k])]
                 ELSE UNCHANGED <<results, unacked>>
              /\ consumer' =
                     IF ~ended THEN [consumer EXCEPT !.topics = left]
                     ELSE IF raw THEN EnterStage(consumer, StageOf(consumer.pc) + 1)
                     ELSE IF ok THEN NextValid([consumer EXCEPT !.i = 0, !.topics = {}], n_now)
                     ELSE NextFallback([consumer EXCEPT !.i = 0])
    /\ UNCHANGED <<stream, dlq, n_codes, n_ip_counter, n_kv, n_now>>

\* get_del_many_script of validate_pairwise_ballots returns: the replies
\* and the map built from them, or an error, which
\* process_pairwise_ballot_batch returns to the loop (Err arm).
save_score_get_del_many(budgeted, max) ==
    /\ consumer.pc = "get_del_many"
    /\ \/ /\ CallFails(budgeted, max)
          /\ consumer' = NextFallback([consumer EXCEPT !.i = 0])
          /\ UNCHANGED n_codes
       \/ LET v == validate_pairwise_ballots(consumer.pairwise, n_codes)
          IN  /\ faults' = faults
              /\ n_codes' = v.codes
              /\ consumer' = [consumer EXCEPT !.pc = "batch_ip_counter",
                                              !.values = v.values,
                                              !.validation_results = v.results]
    /\ UNCHANGED <<stream, dlq, n_ip_counter, n_kv, n_archive, results, n_now, unacked>>

\* batch_ip_counter_script of calculate_pairwise_multipliers returns; on Ok
\* process_pairwise_ballot_batch filters the batch into valid_ballots and
\* failed_messages and calls batch_update_scores, which returns Ok at once
\* when there is no update: nothing is inserted and nothing acked then, and
\* the Ok arm begins.
save_score_batch_ip_counter(budgeted, max) ==
    /\ consumer.pc = "batch_ip_counter"
    /\ \/ /\ CallFails(budgeted, max)
          /\ consumer' = NextFallback([consumer EXCEPT !.i = 0])
          /\ UNCHANGED n_ip_counter
       \/ \E ipsVec \in IterationOrders({consumer.pairwise[k].payload.ip :
                                           k \in DOMAIN consumer.pairwise}) :
             LET m == nats_calculate_pairwise_multipliers(consumer.pairwise, cfg,
                                                          n_ip_counter, ipsVec)
                 valid == {k \in DOMAIN consumer.pairwise :
                              ItemError(consumer.pairwise, consumer.validation_results, k)
                                  = "none"}
                 c == [consumer EXCEPT !.ip_multipliers = m.results, !.valid = valid]
             IN  /\ faults' = faults
                 /\ n_ip_counter' = m.counter
                 /\ consumer' = IF valid = {} THEN NextFailed([c EXCEPT !.i = 0], n_now)
                                ELSE [c EXCEPT !.pc = "batch_score_update"]
    /\ UNCHANGED <<stream, dlq, n_codes, n_kv, n_archive, results, n_now, unacked>>

\* batch_score_update_script of batch_update_scores returns: the call
\* fails, or the script runs on the arguments built in the iteration order
\* of score_updates; its error reply is returned like a failed call (Err
\* arm), after Ok the valid ballots are grouped by topic and inserted.
save_score_batch_score_update(budgeted, max) ==
    /\ consumer.pc = "batch_score_update"
    /\ \/ /\ CallFails(budgeted, max)
          /\ consumer' = NextFallback([consumer EXCEPT !.i = 0])
          /\ UNCHANGED n_kv
       \/ LET valid == KeepIndices(consumer.pairwise, consumer.valid, 1)
              keys == {UpdateKey(valid[k]) : k \in DOMAIN valid}
              totals == [key \in keys |->
                            SumSeq([k \in DOMAIN valid |->
                                       IF UpdateKey(valid[k]) = key
                                       THEN NatsMultiplierOf(consumer.ip_multipliers,
                                                             valid[k].payload, cfg)
                                       ELSE 0])]
          IN  \E order \in IterationOrders(keys) :
                 LET r == NatsBatchScoreUpdateScript(n_kv, NatsScoreArgs(order, totals))
                 IN  /\ faults' = faults
                     /\ n_kv' = r.kv
                     /\ consumer' =
                            IF r.ok
                            THEN [consumer EXCEPT !.pc = "insert_many",
                                                  !.topics = TopicsOf(valid)]
                            ELSE NextFallback([consumer EXCEPT !.i = 0])
    /\ UNCHANGED <<stream, dlq, n_codes, n_ip_counter, n_archive, results, n_now, unacked>>

\* The awaits of process_single_ballot on the message in hand: the GETDEL
\* of validate_ballot on ballot:{code}, followed by the parse of the value
\* and the participants check; ip_counter_script of calculate_multiplier on
\* ip_counter:{ip}; score_update_script; insert_one into the collection
\* ballots.  An error is returned to process_single_pairwise_fallback.
process_single_ballot(budgeted, max) ==
    LET p == consumer.cur.payload
        key == legacy_ballot_key(p.code)
        counter_key == <<"", p.ip>>
        current == HGet(n_ip_counter, counter_key) + 1
    IN  /\ consumer.pc \in {"get_del", "ip_counter", "score_update", "insert_one"}
        /\ \/ /\ CallFails(budgeted, max)
              /\ consumer' = FallbackError(consumer,
                                           IF consumer.pc = "insert_one" THEN "MongoDB"
                                           ELSE "Redis",
                                           n_now)
              /\ UNCHANGED <<n_codes, n_ip_counter, n_kv, n_archive>>
           \/ /\ faults' = faults
              /\ consumer.pc = "get_del"
              /\ LET value == IF key \in DOMAIN n_codes THEN n_codes[key] ELSE Nil
                     e == IF ValidationError(value) # "none" THEN ValidationError(value)
                          ELSE IF InvalidParticipants(value, p.win, p.lose)
                               THEN "InvalidParticipants"
                          ELSE "none"
                 IN  /\ n_codes' = IF value = Nil THEN n_codes ELSE HDel(n_codes, key)
                     /\ consumer' = IF e # "none" THEN FallbackError(consumer, e, n_now)
                                    ELSE [consumer EXCEPT !.pc = "ip_counter"]
              /\ UNCHANGED <<n_ip_counter, n_kv, n_archive>>
           \/ /\ faults' = faults
              /\ consumer.pc = "ip_counter"
              /\ n_ip_counter' = HIncrBy(n_ip_counter, counter_key, 1)
              /\ consumer' =
                     [consumer EXCEPT
                         !.pc = "score_update",
                         !.multiplier = IF cfg.max_ip_limit < 0 \/ current <= cfg.max_ip_limit
                                        THEN cfg.base_multiplier
                                        ELSE cfg.low_multiplier]
              /\ UNCHANGED <<n_codes, n_kv, n_archive>>
           \/ /\ faults' = faults
              /\ consumer.pc = "score_update"
              /\ n_kv' = NatsScoreUpdateScript(n_kv, p.win, p.lose, consumer.multiplier)
              /\ consumer' = [consumer EXCEPT !.pc = "insert_one"]
              /\ UNCHANGED <<n_codes, n_ip_counter, n_archive>>
           \/ /\ faults' = faults
              /\ consumer.pc = "insert_one"
              /\ n_archive' = [n_archive EXCEPT !.ballots =
                                  Append(@, [ballot |-> p, multiplier |-> consumer.multiplier])]
              /\ consumer' = [consumer EXCEPT !.pc = "ack_fallback"]
              /\ UNCHANGED <<n_codes, n_ip_counter, n_kv>>
        /\ UNCHANGED <<stream, dlq, results, n_now, unacked>>

\* The awaits of handle_failed_messages before its double_ack: the sleep
\* of DLQ_RETRY_DELAY has passed; publish_with_headers of the payload with
\* X-Retry-Count + 1 and the first-error timestamp on ark-vote.save_score
\* returns; publish of the DeadLetterMessage on ark-vote.dlq returns.  A
\* failed publish is logged, and the double_ack follows in either case.
handle_failed_messages(budgeted, max) ==
    LET msg == consumer.cur
    IN  /\ \/ /\ consumer.pc = "sleep"
              /\ n_now' = n_now + DLQ_RETRY_DELAY
              /\ consumer' = [consumer EXCEPT !.pc = "republish"]
              /\ UNCHANGED <<stream, dlq, faults>>
           \/ /\ consumer.pc = "republish"
              /\ \/ /\ faults' = faults
                    /\ stream' = Append(stream,
                                        [payload |-> msg.payload,
                                         retry_count |-> msg.retry_count + 1,
                                         first_ts |-> consumer.first_error_timestamp])
                    /\ consumer' = [consumer EXCEPT !.pc = "ack_retry", !.fate = "republished"]
                 \/ /\ CallFails(budgeted, max)
                    /\ stream' = stream
                    /\ consumer' = [consumer EXCEPT !.pc = "ack_retry",
                                                    !.fate = "publish_failed"]
              /\ UNCHANGED <<dlq, n_now>>
           \/ /\ consumer.pc = "publish_dlq"
              /\ \/ /\ faults' = faults
                    /\ dlq' = Append(dlq,
                                     [original_payload |-> msg.payload,
                                      retry_count |-> msg.retry_count,
                                      first_error_timestamp |-> consumer.first_error_timestamp,
                                      last_error_timestamp |-> consumer.current_timestamp])
                    /\ consumer' = [consumer EXCEPT !.pc = "ack_dlq", !.fate = "dead_lettered"]
                 \/ /\ CallFails(budgeted, max)
                    /\ dlq' = dlq
                    /\ consumer' = [consumer EXCEPT !.pc = "ack_dlq", !.fate = "publish_failed"]
              /\ UNCHANGED <<stream, n_now>>
        /\ UNCHANGED <<n_codes, n_ip_counter, n_kv, n_archive, results, unacked>>

\* One step of the consumer thread in process_save_score_messages: the
\* await it is at returns and the thread runs to its next await.  The web
\* handlers, the producers and the other consumer threads run in between.
process_save_score_step(budgeted, max) ==
    /\ consumer.pc # "ended"
    /\ \/ save_score_fetch
       \/ save_score_messages_next
       \/ save_score_double_ack(budgeted, max)
       \/ save_score_insert_many(budgeted, max)
       \/ save_score_get_del_many(budgeted, max)
       \/ save_score_batch_ip_counter(budgeted, max)
       \/ save_score_batch_score_update(budgeted, max)
       \/ process_single_ballot(budgeted, max)
       \/ handle_failed_messages(budgeted, max)
    /\ UNCHANGED <<published, redelivered, dlqVars, skipVars, ncrVars>>
    /\ UNCHANGED <<procVars, kvVars, archive, apiVars, topicVars, resultVars>>

process_save_score_messages(budgeted) == process_save_score_step(budgeted, MaxFaults)

\* consumer.fetch() fails at the top of the loop: process_save_score_messages
\* returns the error; save_score_consumer logs it, sleeps CONSUMER_RETRY_DELAY
\* and leaves block_on, which ends the consumer thread.
save_score_fetch_error ==
    /\ consumer.pc = "fetch"
    /\ faults < MaxFaults
    /\ faults' = faults + 1
    /\ consumer' = [ConsumerIdle EXCEPT !.pc = "ended"]
    /\ UNCHANGED <<stream, dlq, published, n_codes, n_ip_counter, n_kv, n_archive, results,
                   n_now, unacked, redelivered, dlqVars, skipVars, ncrVars>>
    /\ UNCHANGED <<procVars, kvVars, archive, apiVars, topicVars, resultVars>>

\* The stream redelivers the messages whose ack wait ran out.
redeliver ==
    /\ unacked # <<>>
    /\ redelivered < MaxRedeliveries
    /\ redelivered' = redelivered + 1
    /\ stream' = stream \o unacked
    /\ unacked' = <<>>
    /\ UNCHANGED <<dlq, published, n_codes, n_ip_counter, n_kv, n_archive, results,
                   n_now, consumer, dlqVars, skipVars, ncrVars>>
    /\ UNCHANGED <<aggVars, kvVars, archive, apiVars, topicVars, resultVars>>

\* A second of wall-clock time passes in nats-service.
nats_clock_tick ==
    /\ n_now < MaxTime
    /\ n_now' = n_now + 1
    /\ UNCHANGED <<stream, dlq, published, n_codes, n_ip_counter, n_kv, n_archive, results,
                   unacked, redelivered, consumer, dlqVars, skipVars, ncrVars>>
    /\ UNCHANGED <<aggVars, kvVars, archive, apiVars, topicVars, resultVars>>

\* The payloads on ark-vote.new_compare_request: the requests of
\* /ballot/new naming the previous ballots 1 and 2 of topic T1, and a
\* payload that does not decode.
RequestPayloads ==
    { [kind |-> "request", topic_id |-> "T1", ballot_id |-> 1],
      [kind |-> "request", topic_id |-> "T1", ballot_id |-> 2],
      [kind |-> "garbage", topic_id |-> "", ballot_id |-> 0] }

\* The ballot ids a /ballot/new request names as its previous ballot.
PreviousBallotIds == {p.ballot_id : p \in {q \in RequestPayloads : q.kind = "request"}}

\* ----------------------------------------------- /ballot/new (web-service)
\* The ballot id of the k-th challenge web-service issues (a Snowflake id
\* with a random suffix: a new one each time); ids 1 and 2 belong to the
\* challenges issued before.
WebBallotId(k) == 2 + k

\* ballot_create of web-service for topic t up to the await of get_topic;
\* linked: the request names a previous ballot.  A failed lookup answers
\* TargetTopicNotFound, a missing topic and one that is not Active answer
\* TargetTopicNotActive, otherwise the handler goes on with the topic it
\* read.
web_ballot_create_get_topic(t, linked) ==
    /\ issued + Cardinality(creating) < MaxChallenges
    /\ \E lookup \in {"ok", "err"} :
          IF lookup = "err"
          THEN /\ create_response' = CreateError(t, "TargetTopicNotFound")
               /\ creating' = creating
          ELSE IF t \notin DOMAIN topic_table
                  \/ ~is_topic_active(topic_table[t], topic_table[t].phase)
          THEN /\ create_response' = CreateError(t, "TargetTopicNotActive")
               /\ creating' = creating
          ELSE /\ creating' = creating \cup
                      {[topic |-> t, topic_type |-> topic_table[t].topic_type,
                        pc |-> "web_get_candidate_pool", id |-> 0, pair |-> <<0, 0>>,
                        linked |-> linked]}
               /\ create_response' = create_response
    /\ UNCHANGED <<topic_table, ballot_cache_store, issued, started, inflight, response, passed>>
    /\ UNCHANGED <<aggVars, kvVars, archive, natsVars, topicVars, resultVars>>

\* ballot_create of web-service from the await of get_candidate_pool to the
\* await of SETEX: no pool answers TargetTopicNotFound, a topic that is not
\* Pairwise UnsupportedTopicType, a pool of fewer than two entries the
\* InternalError of AppError::InsufficientOperators; otherwise two operators
\* are selected and the ballot id is generated.
web_ballot_create_get_candidate_pool(c) ==
    /\ c \in creating
    /\ c.pc = "web_get_candidate_pool"
    /\ \E lookup \in {"ok", "err"} :
          LET pool == topic_table[c.topic].pool
              reply(m) == /\ create_response' = CreateError(c.topic, m)
                          /\ creating' = creating \ {c}
                          /\ issued' = issued
          IN  IF lookup = "err" \/ pool = <<>> THEN reply("TargetTopicNotFound")
              ELSE IF c.topic_type # "Pairwise" THEN reply("UnsupportedTopicType")
              ELSE IF Len(pool) < 2 THEN reply("InternalError")
              ELSE \E lr \in select_operators(pool) :
                      /\ creating' = (creating \ {c}) \cup
                             {[c EXCEPT !.pc = "set_ex", !.id = WebBallotId(issued + 1),
                                        !.pair = lr]}
                      /\ issued' = issued + 1
                      /\ create_response' = create_response
    /\ UNCHANGED <<topic_table, ballot_cache_store, started, inflight, response, passed>>
    /\ UNCHANGED <<aggVars, kvVars, archive, natsVars, topicVars, resultVars>>

\* ballot_create of web-service at conn.set_ex: "{left},{right}" is stored
\* under {topic_id}:ballot:{ballot_id} (the key expires after 24 hours,
\* beyond the time the model covers), or the call fails and the request is
\* answered InternalError.  A request that names no previous ballot is
\* answered OK.
web_ballot_create_set_ex(c) ==
    /\ c \in creating
    /\ c.pc = "set_ex"
    /\ \/ /\ faults < MaxConsumerFaults
          /\ faults' = faults + 1
          /\ n_codes' = n_codes
          /\ creating' = creating \ {c}
          /\ create_response' = CreateError(c.topic, "InternalError")
       \/ /\ faults' = faults
          /\ n_codes' = [k \in DOMAIN n_codes \cup {ballot_key(c.topic, c.id)} |->
                            IF k = ballot_key(c.topic, c.id) THEN c.pair ELSE n_codes[k]]
          /\ IF c.linked
             THEN /\ creating' = (creating \ {c}) \cup {[c EXCEPT !.pc = "publish"]}
                  /\ create_response' = create_response
             ELSE /\ creating' = creating \ {c}
                  /\ create_response' = [topic |-> c.topic, message |-> "OK",
                                         left |-> c.pair[1], right |-> c.pair[2]]
    /\ UNCHANGED <<topic_table, ballot_cache_store, issued, started, inflight, response, passed>>
    /\ UNCHANGED <<stream, dlq, published, n_ip_counter, n_kv, n_archive, results,
                   n_now, unacked, redelivered, consumer, dlqVars, skipVars, ncrVars>>
    /\ UNCHANGED <<procVars, kvVars, archive, topicVars, resultVars>>

\* ballot_create of web-service in publish_and_ack, at jetstream.publish of
\* the request, which names the topic and the previous ballot, on
\* ark-vote.new_compare_request: the request is handed to the server, which
\* puts it on the stream, or the publish fails and the request is answered
\* InternalError with the challenge stored.
web_ballot_create_publish(c) ==
    /\ c \in creating
    /\ c.pc = "publish"
    /\ \/ /\ faults < MaxConsumerFaults
          /\ faults' = faults + 1
          /\ creating' = creating \ {c}
          /\ create_response' = CreateError(c.topic, "InternalError")
          /\ ncr_stream' = ncr_stream
       \/ /\ faults' = faults
          /\ creating' = (creating \ {c}) \cup {[c EXCEPT !.pc = "ack"]}
          /\ create_response' = create_response
          /\ \E ballot_id \in PreviousBallotIds :
                ncr_stream' = Append(ncr_stream, [kind |-> "request", topic_id |-> c.topic,
                                                  ballot_id |-> ballot_id])
    /\ UNCHANGED <<topic_table, ballot_cache_store, issued, started, inflight, response, passed>>
    /\ UNCHANGED <<stream, dlq, published, n_codes, n_ip_counter, n_kv, n_archive, results,
                   n_now, unacked, redelivered, consumer, dlqVars, skipVars>>
    /\ UNCHANGED <<ncr_unacked, ncr_published, ncr_consumer>>
    /\ UNCHANGED <<procVars, kvVars, archive, topicVars, resultVars>>

\* ballot_create of web-service in publish_and_ack, at the await of the
\* publish acknowledgement: the challenge is answered OK, or the
\* acknowledgement fails and the request is answered InternalError with the
\* challenge stored and the request on the stream.
web_ballot_create_ack(c) ==
    /\ c \in creating
    /\ c.pc = "ack"
    /\ creating' = creating \ {c}
    /\ \/ /\ faults < MaxConsumerFaults
          /\ faults' = faults + 1
          /\ create_response' = CreateError(c.topic, "InternalError")
       \/ /\ faults' = faults
          /\ create_response' = [topic |-> c.topic, message |-> "OK",
                                 left |-> c.pair[1], right |-> c.pair[2]]
    /\ UNCHANGED <<topic_table, ballot_cache_store, issued, started, inflight, response, passed>>
    /\ UNCHANGED <<natsVars, procVars, kvVars, archive, topicVars, resultVars>>

\* --------------------------------------------- DLQ consumer (nats-service)
\* max_messages of the fetch of process_dead_letter_queue.
DLQ_FETCH_SIZE == 10

\* The DLQ consumer thread before its fetch: pc is the await it is at,
\* messages the fetched letters messages.next() has not yielded yet (with
\* their stream sequence numbers), cur the letter in hand.
NoLetter == [seq |-> 0, doc |-> <<>>]
DlqIdle == [pc |-> "fetch", messages |-> <<>>, cur |-> NoLetter]

\* consumer.fetch().max_messages(10).messages() of process_dead_letter_queue
\* returns: the letters published so far, up to DLQ_FETCH_SIZE, or an error,
\* which dlq_consumer logs before the thread ends.
dlq_fetch ==
    /\ dlq_consumer.pc = "fetch"
    /\ \/ dlq_consumer' = [DlqIdle EXCEPT !.pc = "ended"]
       \/ dlq_consumer' =
              [DlqIdle EXCEPT !.pc = "next",
                              !.messages = [k \in 1..Min(Len(dlq), DLQ_FETCH_SIZE) |->
                                               [seq |-> k, doc |-> dlq[k]]]]
    /\ UNCHANGED <<dead_letter_queue, dlq_acked>>

\* messages.next() returns: the next letter goes to
\* process_dead_letter_message; after the last one process_dead_letter_queue
\* returns Ok and the thread ends.
dlq_messages_next ==
    /\ dlq_consumer.pc = "next"
    /\ dlq_consumer' =
           IF dlq_consumer.messages = <<>> THEN [DlqIdle EXCEPT !.pc = "ended"]
           ELSE [dlq_consumer EXCEPT !.pc = "insert_one", !.cur = Head(dlq_consumer.messages),
                                     !.messages = Tail(dlq_consumer.messages)]
    /\ UNCHANGED <<dead_letter_queue, dlq_acked>>

\* process_dead_letter_message: the letter is decoded and insert_one into
\* dead_letter_queue returns; a failure is logged, and the letter is
\* double_acked in either case.
process_dead_letter_message ==
    /\ dlq_consumer.pc = "insert_one"
    /\ \/ dead_letter_queue' = Append(dead_letter_queue, dlq_consumer.cur)
       \/ dead_letter_queue' = dead_letter_queue
    /\ dlq_consumer' = [dlq_consumer EXCEPT !.pc = "double_ack"]
    /\ UNCHANGED dlq_acked

\* msg.double_ack() of process_dead_letter_queue returns: Ok, or an error
\* that is only logged; the letter stays unacked then.
dlq_double_ack ==
    /\ dlq_consumer.pc = "double_ack"
    /\ \/ dlq_acked' = dlq_acked \cup {dlq_consumer.cur.seq}
       \/ dlq_acked' = dlq_acked
    /\ dlq_consumer' = [dlq_consumer EXCEPT !.pc = "next", !.cur = NoLetter]
    /\ UNCHANGED dead_letter_queue

\* One step of the dlq_consumer thread in process_dead_letter_queue, which
\* fetches once: the await it is at returns and the thread runs to its next
\* await.  The save_score consumer publishes dead letters in between.
process_dead_letter_queue ==
    /\ dlq_consumer.pc # "ended"
    /\ \/ dlq_fetch
       \/ dlq_messages_next
       \/ process_dead_letter_message
       \/ dlq_double_ack
    /\ UNCHANGED <<stream, dlq, published, n_codes, n_ip_counter, n_kv, n_archive, results,
                   n_now, unacked, redelivered, consumer, skipVars, ncrVars>>
    /\ UNCHANGED <<aggVars, kvVars, archive, apiVars, topicVars, resultVars>>

\* ----------------------------------------- ark-vote.ballot_skip (producers)
\* The payloads on ark-vote.ballot_skip: skip requests for the challenges
\* 1 and 2 of topic T1, and a payload that does not decode.
SkipPayloads ==
    { [kind |-> "skip", topic_id |-> "T1", ballot_id |-> 1],
      [kind |-> "skip", topic_id |-> "T1", ballot_id |-> 2],
      [kind |-> "garbage", topic_id |-> "", ballot_id |-> 0] }

\* A producer publishes payload p on ark-vote.ballot_skip.  available_consumers
\* registers new_compare_request, save_score and dlq: no consumer of this
\* subject is started, and the requests stay on the stream.
publish_ballot_skip(p) ==
    /\ skip_published < MaxSkips
    /\ skip_published' = skip_published + 1
    /\ skip_stream' = Append(skip_stream, p)
    /\ UNCHANGED <<stream, dlq, published, n_codes, n_ip_counter, n_kv, n_archive, results,
                   n_now, unacked, redelivered, consumer, dlqVars, ncrVars>>
    /\ UNCHANGED <<aggVars, kvVars, archive, apiVars, topicVars, resultVars>>

\* ------------------------------ new_compare_request consumer (nats-service)
IsCreateRequest(p) == p.kind = "request"

\* LUA_SCRIPT_DEL_MUTIPLE
RECURSIVE DelMultipleScript(_, _)
DelMultipleScript(codes, keys) ==
    IF keys = <<>> THEN codes
    ELSE DelMultipleScript(HDel(codes, Head(keys)), Tail(keys))

\* The new_compare_request consumer thread at the top of its loop: pc is
\* the await it is at, messages the fetched messages messages.next() has
\* not yielded yet, batch_messages the decoded requests, cur the message in
\* hand.
NoRequest == [kind |-> "none", topic_id |-> "", ballot_id |-> 0]
RequestsIdle == [pc |-> "fetch", messages |-> <<>>, batch_messages |-> <<>>, cur |-> NoRequest]

\* A producer publishes payload p on ark-vote.new_compare_request.
publish_new_compare_request(p) ==
    /\ ncr_published < MaxSkips
    /\ ncr_published' = ncr_published + 1
    /\ ncr_stream' = Append(ncr_stream, p)
    /\ UNCHANGED <<ncr_unacked, ncr_consumer>>
    /\ UNCHANGED <<stream, dlq, published, n_codes, n_ip_counter, n_kv, n_archive, results,
                   n_now, unacked, redelivered, consumer, dlqVars, skipVars>>
    /\ UNCHANGED <<aggVars, kvVars, archive, apiVars, topicVars, resultVars>>

\* consumer.fetch().max_messages(CONSUMER_BATCH_SIZE).messages() at the top
\* of the loop of process_new_compare_requests returns: up to
\* CONSUMER_BATCH_SIZE of the messages awaiting delivery, or an error, which
\* process_new_compare_requests returns; new_compare_request_consumer logs
\* it, sleeps CONSUMER_RETRY_DELAY and leaves block_on, which ends the
\* consumer thread.
new_compare_request_fetch ==
    /\ ncr_consumer.pc = "fetch"
    /\ \/ /\ faults < MaxFaults
          /\ faults' = faults + 1
          /\ ncr_consumer' = [RequestsIdle EXCEPT !.pc = "ended"]
          /\ UNCHANGED ncr_stream
       \/ /\ ncr_stream # <<>>
          /\ faults' = faults
          /\ \E n \in 1..Min(Len(ncr_stream), CONSUMER_BATCH_SIZE) :
                /\ ncr_consumer' = [ncr_consumer EXCEPT !.pc = "next",
                                                        !.messages = SubSeq(ncr_stream, 1, n)]
                /\ ncr_stream' = SubSeq(ncr_stream, n + 1, Len(ncr_stream))
    /\ UNCHANGED <<n_codes, ncr_unacked>>

\* messages.next() returns: a request that decodes is pushed to
\* batch_messages and its message dropped without an ack, a payload that
\* does not decode is double_acked next; at the end of the fetch the loop
\* starts over when batch_messages is empty, and otherwise the script is
\* called on the keys ballot:{ballot_id} of the batch.
new_compare_request_messages_next ==
    /\ ncr_consumer.pc = "next"
    /\ IF ncr_consumer.messages = <<>>
       THEN /\ ncr_consumer' = IF ncr_consumer.batch_messages = <<>> THEN RequestsIdle
                               ELSE [ncr_consumer EXCEPT !.pc = "del_multiple"]
            /\ UNCHANGED ncr_unacked
       ELSE LET msg == Head(ncr_consumer.messages)
            IN  IF IsCreateRequest(msg)
                THEN /\ ncr_consumer' = [ncr_consumer EXCEPT
                                            !.messages = Tail(@),
                                            !.batch_messages = Append(@, msg)]
                     /\ ncr_unacked' = Append(ncr_unacked, msg)
                ELSE /\ ncr_consumer' = [ncr_consumer EXCEPT !.messages = Tail(@),
                                                             !.cur = msg,
                                                             !.pc = "double_ack"]
                     /\ UNCHANGED ncr_unacked
    /\ UNCHANGED <<n_codes, ncr_stream, faults>>

\* msg.double_ack() of an undecodable message returns: Ok, or an error,
\* which process_new_compare_requests returns with the message and the rest
\* of the fetch unacked; the thread ends.
new_compare_request_double_ack ==
    /\ ncr_consumer.pc = "double_ack"
    /\ \/ /\ faults' = faults
          /\ ncr_consumer' = [ncr_consumer EXCEPT !.pc = "next", !.cur = NoRequest]
          /\ UNCHANGED ncr_unacked
       \/ /\ faults < MaxFaults
          /\ faults' = faults + 1
          /\ ncr_unacked' = (ncr_unacked \o <<ncr_consumer.cur>>) \o ncr_consumer.messages
          /\ ncr_consumer' = [RequestsIdle EXCEPT !.pc = "ended"]
    /\ UNCHANGED <<n_codes, ncr_stream>>

\* del_multiple_script returns: the keys ballot:{ballot_id} of the batch
\* are deleted and batch_messages is cleared, or the call fails and
\* process_new_compare_requests returns the error; the thread ends.
new_compare_request_del_multiple ==
    /\ ncr_consumer.pc = "del_multiple"
    /\ LET ballot_keys == [i \in DOMAIN ncr_consumer.batch_messages |->
                              legacy_ballot_key(ncr_consumer.batch_messages[i].ballot_id)]
       IN  \/ /\ faults' = faults
              /\ n_codes' = DelMultipleScript(n_codes, ballot_keys)
              /\ ncr_consumer' = RequestsIdle
           \/ /\ faults < MaxFaults
              /\ faults' = faults + 1
              /\ n_codes' = n_codes
              /\ ncr_consumer' = [RequestsIdle EXCEPT !.pc = "ended"]
    /\ UNCHANGED <<ncr_stream, ncr_unacked>>

\* One step of the consumer thread in process_new_compare_requests: the
\* await it is at returns and the thread runs to its next await.  The
\* save_score consumer and the web handlers run in between.
process_new_compare_requests ==
    /\ ncr_consumer.pc # "ended"
    /\ \/ new_compare_request_fetch
       \/ new_compare_request_messages_next
       \/ new_compare_request_double_ack
       \/ new_compare_request_del_multiple
    /\ UNCHANGED ncr_published
    /\ UNCHANGED <<stream, dlq, published, n_ip_counter, n_kv, n_archive, results,
                   n_now, unacked, redelivered, consumer, dlqVars, skipVars>>
    /\ UNCHANGED <<procVars, kvVars, archive, apiVars, topicVars, resultVars>>

\* The stream redelivers the requests whose ack wait ran out.
new_compare_request_redeliver ==
    /\ ncr_unacked # <<>>
    /\ redelivered < MaxRedeliveries
    /\ redelivered' = redelivered + 1
    /\ ncr_stream' = ncr_stream \o ncr_unacked
    /\ ncr_unacked' = <<>>
    /\ UNCHANGED <<ncr_published, ncr_consumer>>
    /\ UNCHANGED <<stream, dlq, published, n_codes, n_ip_counter, n_kv, n_archive, results,
                   n_now, unacked, consumer, dlqVars, skipVars>>
    /\ UNCHANGED <<aggVars, kvVars, archive, apiVars, topicVars, resultVars>>

InitNatsWith(codes) ==
    /\ stream = <<>>
    /\ dlq = <<>>
    /\ published = 0
    /\ n_codes = codes
    /\ n_ip_counter = EmptyHash
    /\ n_kv = [op_stats |-> EmptyHash, op_matrix |-> EmptyHash, total_valid_ballots |-> 0]
    /\ n_archive = [ballots |-> <<>>, T1 |-> <<>>, T2 |-> <<>>]
    /\ results = {}
    /\ n_now = 1
    /\ unacked = <<>>
    /\ redelivered = 0
    /\ consumer = ConsumerIdle
    /\ dlq_acked = {}
    /\ dead_letter_queue = <<>>
    /\ dlq_consumer = DlqIdle
    /\ skip_stream = <<>>
    /\ skip_published = 0
    /\ ncr_stream = <<>>
    /\ ncr_unacked = <<>>
    /\ ncr_published = 0
    /\ ncr_consumer = RequestsIdle

InitNats ==
    InitNatsWith((ballot_key("T1", 1) :> <<1, 2>>) @@ (ballot_key("T1", 2) :> <<1>>))

\* ------------------------------ topic cache and service (portable-service)
\* The request threads calling into TopicService.
TopicCallers == {"c1", "c2"}
\* The request threads of the /results endpoints, which call get_topic and
\* get_candidate_pool from their handlers.
ResultCallers == {"r1", "r2"}
\* The topic the calls name.
TcId == "T1"
\* updated_at = None
NoTime == 0
\* The number of MongoDB calls of TopicService that fail in one behaviour.
MaxTopicFaults == 1

\* The character catalog handed to generate_pool.
CharacterInfos ==
    <<[id |-> 1, rarity |-> 6], [id |-> 2, rarity |-> 6], [id |-> 3, rarity |-> 5]>>

\* CandidatePoolPreset::generate_pool
generate_pool(preset, character_infos) ==
    IF preset.kind = "SixStarOperators"
    THEN LET six == SelectSeq(character_infos, LAMBDA op : op.rarity = 6)
         IN  [i \in 1..Len(six) |-> six[i].id]
    ELSE IF preset.kind = "AllOperators"
    THEN [i \in 1..Len(character_infos) |-> character_infos[i].id]
    ELSE preset.ops

Custom(ops) == [kind |-> "Custom", ops |-> ops]
AllOperators == [kind |-> "AllOperators", ops |-> <<>>]

WaitingAudit == [kind |-> "WaitingAudit", category |-> "none"]
\* The audit_category of the TopicAuditInfo values a caller passes.
AuditCategories == {"ContentCompliance", "Spam"}

\* TopicAuditInfo::is_approved
is_approved(audit_category) == audit_category = "ContentCompliance"

\* The status audit_topic computes.
AuditStatus(audit_category) ==
    IF is_approved(audit_category)
    THEN [kind |-> "Approved", category |-> audit_category]
    ELSE [kind |-> "Rejected", category |-> audit_category]

\* The topic stored in the collection when the service starts.
StoredTopic ==
    [id |-> TcId, name |-> "n1", description |-> "d1", is_active |-> TRUE,
     topic_type |-> "Pairwise", status |-> WaitingAudit, updated_at |-> NoTime,
     candidate_pool |-> Custom(<<1, 2>>)]

\* The topics _update_topic is called with (updated_at is set by the call).
UpdateInputs ==
    { [StoredTopic EXCEPT !.candidate_pool = AllOperators],
      [StoredTopic EXCEPT !.candidate_pool = Custom(<<>>), !.description = "d2"] }

\* The topics create_topic is called with.
CreateInputs == {StoredTopic}

\* CacheEntry::new
CacheEntryNew(data) == [data |-> data, pool |-> <<>>]

\* TopicCache::should_update_entry
should_update_entry_or_equal(cached, new) ==
    IF cached.updated_at = NoTime /\ new.updated_at # NoTime THEN TRUE
    ELSE IF cached.updated_at # NoTime /\ new.updated_at # NoTime
         THEN cached.updated_at <= new.updated_at
    ELSE IF cached.updated_at # NoTime /\ new.updated_at = NoTime THEN FALSE
    ELSE \/ cached.description # new.description
         \/ cached.name # new.name
         \/ cached.is_active # new.is_active

should_update_entry(cached, new) ==
    IF cached.updated_at = NoTime /\ new.updated_at # NoTime THEN TRUE
    ELSE IF cached.updated_at # NoTime /\ new.updated_at # NoTime
         THEN cached.updated_at < new.updated_at
    ELSE IF cached.updated_at # NoTime /\ new.updated_at = NoTime THEN FALSE
    ELSE \/ cached.description # new.description
         \/ cached.name # new.name
         \/ cached.is_active # new.is_active

\* TopicCache::insert on the map cache: the map afterwards and the returned
\* flag.
insert(cache, topic) ==
    IF topic.id \in DOMAIN cache /\ ~should_update_entry(cache[topic.id].data, topic)
    THEN [cache |-> cache, ret |-> FALSE]
    ELSE [cache |-> [k \in DOMAIN cache \cup {topic.id} |->
                        IF k = topic.id THEN CacheEntryNew(topic) ELSE cache[k]],
          ret |-> TRUE]

\* TopicCache::insert_batch
RECURSIVE insert_batch(_, _)
insert_batch(cache, topics) ==
    IF topics = <<>> THEN cache
    ELSE insert_batch(insert(cache, Head(topics)).cache, Tail(topics))

\* TopicCache::cache_topic_pool
cache_topic_pool(cache, topic_id, pool) ==
    IF topic_id \in DOMAIN cache
    THEN [cache EXCEPT ![topic_id].pool = pool]
    ELSE cache

\* The collection holds its documents in natural order; id is not a unique
\* key, and insert_one stores a document whatever ids are stored.
\* find_one, update_one, replace_one and delete_one with the filter
\* { "id": id } act on the first document of that id: its position, 0 when
\* there is none.
FirstWithId(db, id) ==
    IF \E i \in DOMAIN db : db[i].id = id
    THEN CHOOSE i \in DOMAIN db : db[i].id = id /\ \A j \in 1..(i - 1) : db[j].id # id
    ELSE 0

\* delete_one with the filter { "id": id }
delete_one(db, id) ==
    IF FirstWithId(db, id) = 0 THEN db
    ELSE SubSeq(db, 1, FirstWithId(db, id) - 1) \o SubSeq(db, FirstWithId(db, id) + 1, Len(db))

\* The documents a find with the empty filter returns.
FindAll(db) == db

\* The documents a find with updated_at >= since returns (a document
\* without updated_at does not match).
FindSince(db, since) ==
    SelectSeq(FindAll(db), LAMBDA t : t.updated_at # NoTime /\ t.updated_at >= since)

\* A thread that is not in TopicService.  In a call, id is the topic_id it
\* was called with, topic the topic in hand, rest the topics insert_batch
\* has not come to and count the inserts of it that returned true; ok,
\* found and pool are the value a call handed back to a /results handler.
IdleCall == [pc |-> "idle", op |-> "none", id |-> TcId, topic |-> StoredTopic,
             was_cached |-> FALSE, category |-> "none", stamp |-> NoTime,
             rest |-> <<>>, count |-> 0, ok |-> FALSE, found |-> FALSE, pool |-> <<>>]
NoReturn == [caller |-> "none", op |-> "none", ok |-> FALSE, found |-> FALSE,
             topic |-> StoredTopic, pool |-> <<>>, was_cached |-> FALSE,
             category |-> "none", stamp |-> NoTime]

\* The value call op of caller c returns.
Return(c, op, ok, found, topic, pool) ==
    [caller |-> c, op |-> op, ok |-> ok, found |-> found, topic |-> topic, pool |-> pool,
     was_cached |-> tcalls[c].was_cached, category |-> tcalls[c].category,
     stamp |-> tcalls[c].stamp]

\* A second of wall-clock time passes in portable-service.
topic_clock_tick ==
    /\ tc_now < MaxTime
    /\ tc_now' = tc_now + 1
    /\ UNCHANGED <<tc_db, tc_cache, up_cache, last_full_refresh, refresh_readers,
                   refresh_writer, tcalls, tc_ret, up_pc, up_topics, tc_writes>>
    /\ UNCHANGED <<aggVars, kvVars, archive, apiVars, natsVars, resultVars>>

\* The request threads of TopicService run on several worker threads: every
\* operation on the cache map, on refresh_lock and on the collection is a
\* step of its own, and the other threads run between two of them.

\* Call op(id) of thread c returns.  The request thread of a /results
\* handler goes on in its handler with the value (pc "done"); the value
\* another request thread gets is kept in tc_ret.
returns(c, op, id, ok, found, topic, pool) ==
    IF c \in ResultCallers
    THEN /\ tcalls' = [tcalls EXCEPT ![c] =
                          [IdleCall EXCEPT !.pc = "done", !.op = op, !.id = id, !.ok = ok,
                                           !.found = found, !.topic = topic, !.pool = pool]]
         /\ UNCHANGED tc_ret
    ELSE /\ tc_ret' = Return(c, op, ok, found, topic, pool)
         /\ tcalls' = [tcalls EXCEPT ![c] = IdleCall]

\* get_topic hands its result to the function that called it: its own
\* caller, get_candidate_pool (which evaluates the pool of a topic found and
\* returns None otherwise) or audit_topic (which inserts a topic found and
\* returns the error of a failed lookup).
get_topic_returns(c, op, id, ok, found, topic) ==
    IF op = "get_candidate_pool" /\ ok /\ found
    THEN /\ tcalls' = [tcalls EXCEPT ![c].pc = "evaluate", ![c].op = op, ![c].id = id,
                                     ![c].topic = topic]
         /\ UNCHANGED tc_ret
    ELSE IF op = "audit_topic" /\ ok /\ found
    THEN /\ tcalls' = [tcalls EXCEPT ![c].pc = "check2", ![c].topic = topic]
         /\ UNCHANGED tc_ret
    ELSE returns(c, op, id, ok \/ op = "get_candidate_pool", found, topic, <<>>)

\* get_topic(id), line 177: self.cache.get; a hit returns the cached topic,
\* a miss goes on to wait for a read guard of refresh_lock.  op is the call
\* get_topic runs for.
get_topic_enter(c, op, id) ==
    IF id \in DOMAIN tc_cache
    THEN get_topic_returns(c, op, id, TRUE, TRUE, tc_cache[id].data)
    ELSE /\ tcalls' = [tcalls EXCEPT ![c].pc = "lock", ![c].op = op, ![c].id = id]
         /\ UNCHANGED tc_ret

\* A request thread calls get_topic.
get_topic(c) ==
    /\ tcalls[c].pc = "idle"
    /\ get_topic_enter(c, "get_topic", TcId)
    /\ UNCHANGED <<tc_db, tc_cache, up_cache, last_full_refresh, tc_now, refresh_readers,
                   refresh_writer, up_pc, up_topics, tc_writes>>
    /\ UNCHANGED <<aggVars, kvVars, archive, apiVars, natsVars, resultVars>>

\* get_candidate_pool(id), line 243: self.cache.get_pool; a memoized
\* non-empty pool is returned, otherwise get_topic is called.
get_candidate_pool_enter(c, id) ==
    IF id \in DOMAIN tc_cache /\ tc_cache[id].pool # <<>>
    THEN returns(c, "get_candidate_pool", id, TRUE, TRUE, tc_cache[id].data, tc_cache[id].pool)
    ELSE /\ tcalls' = [tcalls EXCEPT ![c].pc = "get", ![c].op = "get_candidate_pool",
                                     ![c].id = id]
         /\ UNCHANGED tc_ret

\* A request thread calls get_candidate_pool.
get_candidate_pool(c) ==
    /\ tcalls[c].pc = "idle"
    /\ get_candidate_pool_enter(c, TcId)
    /\ UNCHANGED <<tc_db, tc_cache, up_cache, last_full_refresh, tc_now, refresh_readers,
                   refresh_writer, up_pc, up_topics, tc_writes>>
    /\ UNCHANGED <<aggVars, kvVars, archive, apiVars, natsVars, resultVars>>

\* The get_topic that get_candidate_pool (line 249) or audit_topic (line
\* 231) calls looks the cache up.
get_topic_lookup(c) ==
    /\ tcalls[c].pc = "get"
    /\ get_topic_enter(c, tcalls[c].op, tcalls[c].id)
    /\ UNCHANGED <<tc_db, tc_cache, up_cache, last_full_refresh, tc_now, refresh_readers,
                   refresh_writer, up_pc, up_topics, tc_writes>>
    /\ UNCHANGED <<aggVars, kvVars, archive, apiVars, natsVars, resultVars>>

\* get_topic, line 182: refresh_lock.read().await returns a read guard once
\* no write guard is held; find_one starts.
get_topic_read_lock(c) ==
    /\ tcalls[c].pc = "lock"
    /\ ~refresh_writer
    /\ refresh_readers' = refresh_readers + 1
    /\ tcalls' = [tcalls EXCEPT ![c].pc = "fetch"]
    /\ UNCHANGED <<tc_db, tc_cache, up_cache, last_full_refresh, tc_now, refresh_writer,
                   tc_ret, up_pc, up_topics, tc_writes>>
    /\ UNCHANGED <<aggVars, kvVars, archive, apiVars, natsVars, resultVars>>

\* get_topic, line 185: find_one completes; an error or no document ends
\* get_topic, which drops its read guard; a document is handed to insert.
find_one_returns(c) ==
    /\ tcalls[c].pc = "fetch"
    /\ \/ /\ faults < MaxTopicFaults
          /\ faults' = faults + 1
          /\ refresh_readers' = refresh_readers - 1
          /\ get_topic_returns(c, tcalls[c].op, tcalls[c].id, FALSE, FALSE, StoredTopic)
       \/ /\ FirstWithId(tc_db, tcalls[c].id) = 0
          /\ refresh_readers' = refresh_readers - 1
          /\ get_topic_returns(c, tcalls[c].op, tcalls[c].id, TRUE, FALSE, StoredTopic)
          /\ UNCHANGED faults
       \/ /\ FirstWithId(tc_db, tcalls[c].id) # 0
          /\ tcalls' = [tcalls EXCEPT ![c].pc = "check1",
                                      ![c].topic = tc_db[FirstWithId(tc_db, tcalls[c].id)]]
          /\ UNCHANGED <<faults, refresh_readers, tc_ret>>
    /\ UNCHANGED <<tc_db, tc_cache, up_cache, last_full_refresh, tc_now, refresh_writer,
                   up_pc, up_topics, tc_writes>>
    /\ UNCHANGED <<procVars, kvVars, archive, apiVars, natsVars, resultVars>>

\* The insert a call is in, by its position: 1 the insert of get_topic
\* (line 186), 2 the insert of audit_topic (232), 3 the insert of
\* _update_topic (163), 4 the insert_batch of _update_cache_internal (278).
InsertStage(pc) ==
    IF pc \in {"check1", "write1"} THEN 1
    ELSE IF pc \in {"check2", "write2"} THEN 2
    ELSE IF pc \in {"check3", "write3"} THEN 3
    ELSE 4

\* A call of insert by c has returned ret.  get_topic then drops its read
\* guard and returns the topic; audit_topic and _update_topic return Ok;
\* insert_batch goes on with the next topic and, after the last one,
\* _refresh_cache drops the write guard and returns the count.
insert_returns(c, stage, ret) ==
    IF stage = 1
    THEN /\ refresh_readers' = refresh_readers - 1
         /\ get_topic_returns(c, tcalls[c].op, tcalls[c].id, TRUE, TRUE, tcalls[c].topic)
         /\ UNCHANGED refresh_writer
    ELSE IF stage = 4 /\ tcalls[c].rest # <<>>
    THEN /\ tcalls' = [tcalls EXCEPT ![c].pc = "check4",
                                     ![c].topic = Head(tcalls[c].rest),
                                     ![c].rest = Tail(tcalls[c].rest),
                                     ![c].count = IF ret THEN @ + 1 ELSE @]
         /\ UNCHANGED <<refresh_readers, refresh_writer, tc_ret>>
    ELSE /\ refresh_writer' = IF stage = 4 THEN FALSE ELSE refresh_writer
         /\ returns(c, tcalls[c].op, tcalls[c].id, TRUE,
                    stage = 2 \/ ret \/ tcalls[c].count > 0, tcalls[c].topic, <<>>)
         /\ UNCHANGED refresh_readers

\* insert, lines 67-71: self.cache.get and should_update_entry; the guard of
\* the lookup is dropped before the entry is built.
insert_lookup(c) ==
    /\ tcalls[c].pc \in {"check1", "check2", "check3", "check4"}
    /\ LET stage == InsertStage(tcalls[c].pc)
       IN  IF /\ tcalls[c].topic.id \in DOMAIN tc_cache
              /\ ~should_update_entry(tc_cache[tcalls[c].topic.id].data, tcalls[c].topic)
           THEN insert_returns(c, stage, FALSE)
           ELSE /\ tcalls' = [tcalls EXCEPT ![c].pc =
                                 IF stage = 1 THEN "write1" ELSE IF stage = 2 THEN "write2"
                                 ELSE IF stage = 3 THEN "write3" ELSE "write4"]
                /\ UNCHANGED <<refresh_readers, refresh_writer, tc_ret>>
    /\ UNCHANGED <<tc_db, tc_cache, up_cache, last_full_refresh, tc_now, up_pc, up_topics,
                   tc_writes>>
    /\ UNCHANGED <<aggVars, kvVars, archive, apiVars, natsVars, resultVars>>

\* insert, lines 73-82: self.cache.insert(topic_id, CacheEntry::new(topic)).
insert_store(c) ==
    /\ tcalls[c].pc \in {"write1", "write2", "write3", "write4"}
    /\ tc_cache' = [k \in DOMAIN tc_cache \cup {tcalls[c].topic.id} |->
                       IF k = tcalls[c].topic.id THEN CacheEntryNew(tcalls[c].topic)
                       ELSE tc_cache[k]]
    /\ insert_returns(c, InsertStage(tcalls[c].pc), TRUE)
    /\ UNCHANGED <<tc_db, up_cache, last_full_refresh, tc_now, up_pc, up_topics, tc_writes>>
    /\ UNCHANGED <<aggVars, kvVars, archive, apiVars, natsVars, resultVars>>

\* get_candidate_pool after get_topic returned the topic, lines 251-257:
\* the pool is generated from it; a non-empty pool is memoized on the entry
\* the cache holds now and returned, an empty one gives None.
evaluate_pool(c) ==
    /\ tcalls[c].pc = "evaluate"
    /\ LET pool == generate_pool(tcalls[c].topic.candidate_pool, CharacterInfos)
       IN  /\ tc_cache' = IF pool # <<>> THEN cache_topic_pool(tc_cache, tcalls[c].id, pool)
                          ELSE tc_cache
           /\ returns(c, "get_candidate_pool", tcalls[c].id, TRUE, pool # <<>>,
                      tcalls[c].topic, pool)
    /\ UNCHANGED <<tc_db, up_cache, last_full_refresh, tc_now, refresh_readers,
                   refresh_writer, up_pc, up_topics, tc_writes>>
    /\ UNCHANGED <<aggVars, kvVars, archive, apiVars, natsVars, resultVars>>

\* A request thread calls audit_topic, lines 216-228: the status is
\* computed from the audit info and the update document is built with
\* updated_at = Utc::now(); update_one starts.
audit_topic(c, audit_category) ==
    /\ tcalls[c].pc = "idle"
    /\ tc_writes < MaxUpdates
    /\ tc_writes' = tc_writes + 1
    /\ tcalls' = [tcalls EXCEPT ![c] =
                     [IdleCall EXCEPT !.pc = "update_one", !.op = "audit_topic",
                                      !.was_cached = TcId \in DOMAIN tc_cache,
                                      !.category = audit_category, !.stamp = tc_now]]
    /\ UNCHANGED <<tc_db, tc_cache, up_cache, last_full_refresh, tc_now, refresh_readers,
                   refresh_writer, tc_ret, up_pc, up_topics>>
    /\ UNCHANGED <<aggVars, kvVars, archive, apiVars, natsVars, resultVars>>

\* audit_topic, line 230: update_one completes; the status and the
\* updated_at of the update document are written to the first stored topic
\* of that id, or the call fails and audit_topic returns the error.
audit_topic_update_one(c) ==
    /\ tcalls[c].pc = "update_one"
    /\ \/ /\ faults < MaxTopicFaults
          /\ faults' = faults + 1
          /\ tc_ret' = Return(c, "audit_topic", FALSE, FALSE, StoredTopic, <<>>)
          /\ tcalls' = [tcalls EXCEPT ![c] = IdleCall]
          /\ UNCHANGED tc_db
       \/ /\ tc_db' = IF FirstWithId(tc_db, TcId) # 0
                      THEN [tc_db EXCEPT
                               ![FirstWithId(tc_db, TcId)].status =
                                   AuditStatus(tcalls[c].category),
                               ![FirstWithId(tc_db, TcId)].updated_at = tcalls[c].stamp]
                      ELSE tc_db
          /\ tcalls' = [tcalls EXCEPT ![c].pc = "get"]
          /\ UNCHANGED <<tc_ret, faults>>
    /\ UNCHANGED <<tc_cache, up_cache, last_full_refresh, tc_now, refresh_readers,
                   refresh_writer, up_pc, up_topics, tc_writes>>
    /\ UNCHANGED <<procVars, kvVars, archive, apiVars, natsVars, resultVars>>

\* A request thread calls _update_topic, lines 160-161: updated_at of the
\* topic is set to Utc::now(); replace_one starts.
update_topic(c, topic) ==
    /\ tcalls[c].pc = "idle"
    /\ tc_writes < MaxUpdates
    /\ tc_writes' = tc_writes + 1
    /\ tcalls' = [tcalls EXCEPT ![c] =
                     [IdleCall EXCEPT !.pc = "replace_one", !.op = "update_topic",
                                      !.topic = [topic EXCEPT !.updated_at = tc_now],
                                      !.stamp = tc_now]]
    /\ UNCHANGED <<tc_db, tc_cache, up_cache, last_full_refresh, tc_now, refresh_readers,
                   refresh_writer, tc_ret, up_pc, up_topics>>
    /\ UNCHANGED <<aggVars, kvVars, archive, apiVars, natsVars, resultVars>>

\* _update_topic, line 162: replace_one completes; the first stored topic
\* of that id, if there is one, is replaced and the topic goes to the cache
\* insert, or the call fails and _update_topic returns the error.
update_topic_replace_one(c) ==
    /\ tcalls[c].pc = "replace_one"
    /\ \/ /\ faults < MaxTopicFaults
          /\ faults' = faults + 1
          /\ tc_ret' = Return(c, "update_topic", FALSE, FALSE, tcalls[c].topic, <<>>)
          /\ tcalls' = [tcalls EXCEPT ![c] = IdleCall]
          /\ UNCHANGED tc_db
       \/ /\ tc_db' = IF FirstWithId(tc_db, tcalls[c].topic.id) # 0
                      THEN [tc_db EXCEPT ![FirstWithId(tc_db, tcalls[c].topic.id)] =
                                             tcalls[c].topic]
                      ELSE tc_db
          /\ tcalls' = [tcalls EXCEPT ![c].pc = "check3"]
          /\ UNCHANGED <<tc_ret, faults>>
    /\ UNCHANGED <<tc_cache, up_cache, last_full_refresh, tc_now, refresh_readers,
                   refresh_writer, up_pc, up_topics, tc_writes>>
    /\ UNCHANGED <<procVars, kvVars, archive, apiVars, natsVars, resultVars>>

\* A request thread calls _delete_topic, line 170: delete_one removes the
\* first stored topic of that id, or fails and _delete_topic returns the
\* error.
delete_topic(c) ==
    /\ tcalls[c].pc = "idle"
    /\ tc_writes < MaxUpdates
    /\ tc_writes' = tc_writes + 1
    /\ \/ /\ faults < MaxTopicFaults
          /\ faults' = faults + 1
          /\ tc_ret' = Return(c, "delete_topic", FALSE, FALSE, StoredTopic, <<>>)
          /\ UNCHANGED <<tc_db, tcalls>>
       \/ /\ tc_db' = delete_one(tc_db, TcId)
          /\ tcalls' = [tcalls EXCEPT ![c] =
                           [IdleCall EXCEPT !.pc = "remove", !.op = "delete_topic"]]
          /\ UNCHANGED <<tc_ret, faults>>
    /\ UNCHANGED <<tc_cache, up_cache, last_full_refresh, tc_now, refresh_readers,
                   refresh_writer, up_pc, up_topics>>
    /\ UNCHANGED <<procVars, kvVars, archive, apiVars, natsVars, resultVars>>

\* _delete_topic, line 171: self.cache.cache.remove(topic_id).
delete_topic_remove(c) ==
    /\ tcalls[c].pc = "remove"
    /\ tc_cache' = [k \in DOMAIN tc_cache \ {TcId} |-> tc_cache[k]]
    /\ tc_ret' = Return(c, "delete_topic", TRUE, TRUE, StoredTopic, <<>>)
    /\ tcalls' = [tcalls EXCEPT ![c] = IdleCall]
    /\ UNCHANGED <<tc_db, up_cache, last_full_refresh, tc_now, refresh_readers,
                   refresh_writer, up_pc, up_topics, tc_writes>>
    /\ UNCHANGED <<aggVars, kvVars, archive, apiVars, natsVars, resultVars>>

\* A request thread calls create_topic, line 154: insert_one stores the
\* topic as one more document, whether or not a topic of its id is stored,
\* or fails; the cache is not touched.
create_topic(c, topic) ==
    /\ tcalls[c].pc = "idle"
    /\ tc_writes < MaxUpdates
    /\ tc_writes' = tc_writes + 1
    /\ \/ /\ faults < MaxTopicFaults
          /\ faults' = faults + 1
          /\ tc_ret' = Return(c, "create_topic", FALSE, FALSE, topic, <<>>)
          /\ UNCHANGED tc_db
       \/ /\ tc_db' = Append(tc_db, topic)
          /\ tc_ret' = Return(c, "create_topic", TRUE, TRUE, topic, <<>>)
          /\ UNCHANGED faults
    /\ UNCHANGED <<tc_cache, up_cache, last_full_refresh, tc_now, refresh_readers,
                   refresh_writer, tcalls, up_pc, up_topics>>
    /\ UNCHANGED <<procVars, kvVars, archive, apiVars, natsVars, resultVars>>

\* A request thread calls _refresh_cache, line 265: refresh_lock.write()
\* returns the write guard once no guard is held; the find of
\* _update_cache_internal starts.
refresh_cache(c) ==
    /\ tcalls[c].pc = "idle"
    /\ ~refresh_writer
    /\ refresh_readers = 0
    /\ refresh_writer' = TRUE
    /\ tcalls' = [tcalls EXCEPT ![c] = [IdleCall EXCEPT !.pc = "find", !.op = "refresh_cache"]]
    /\ UNCHANGED <<tc_db, tc_cache, up_cache, last_full_refresh, tc_now, refresh_readers,
                   tc_ret, up_pc, up_topics, tc_writes>>
    /\ UNCHANGED <<aggVars, kvVars, archive, apiVars, natsVars, resultVars>>

\* _update_cache_internal, lines 271-276: the find and its cursor complete
\* with the stored topics, which go to insert_batch one after the other, or
\* fail; with no topic stored the call returns Ok(0).  The write guard is
\* dropped on return.
refresh_cache_find(c) ==
    /\ tcalls[c].pc = "find"
    /\ \/ /\ faults < MaxTopicFaults
          /\ faults' = faults + 1
          /\ refresh_writer' = FALSE
          /\ tc_ret' = Return(c, "refresh_cache", FALSE, FALSE, StoredTopic, <<>>)
          /\ tcalls' = [tcalls EXCEPT ![c] = IdleCall]
       \/ /\ FindAll(tc_db) = <<>>
          /\ refresh_writer' = FALSE
          /\ tc_ret' = Return(c, "refresh_cache", TRUE, FALSE, StoredTopic, <<>>)
          /\ tcalls' = [tcalls EXCEPT ![c] = IdleCall]
          /\ UNCHANGED faults
       \/ /\ FindAll(tc_db) # <<>>
          /\ tcalls' = [tcalls EXCEPT ![c].pc = "check4", ![c].topic = Head(FindAll(tc_db)),
                                      ![c].rest = Tail(FindAll(tc_db))]
          /\ UNCHANGED <<refresh_writer, tc_ret, faults>>
    /\ UNCHANGED <<tc_db, tc_cache, up_cache, last_full_refresh, tc_now, refresh_readers,
                   up_pc, up_topics, tc_writes>>
    /\ UNCHANGED <<procVars, kvVars, archive, apiVars, natsVars, resultVars>>

\* cache_updater runs on a TopicCache of its own (the clone of line 143),
\* without refresh_lock.

\* initial_warm_cache, lines 332-337: the find and its cursor complete with
\* the stored topics, or fail and the updater goes on to its loop.
initial_warm_cache ==
    /\ up_pc = "warm"
    /\ \/ /\ up_topics' = FindAll(tc_db)
          /\ up_pc' = "warm_insert"
          /\ UNCHANGED faults
       \/ /\ faults < MaxTopicFaults
          /\ faults' = faults + 1
          /\ up_pc' = "loop"
          /\ UNCHANGED up_topics
    /\ UNCHANGED <<tc_db, tc_cache, up_cache, last_full_refresh, tc_now, refresh_readers,
                   refresh_writer, tcalls, tc_ret, tc_writes>>
    /\ UNCHANGED <<procVars, kvVars, archive, apiVars, natsVars, resultVars>>

\* initial_warm_cache, lines 339-340: insert_batch of the topics read, then
\* last_full_refresh = Utc::now().
initial_warm_cache_insert ==
    /\ up_pc = "warm_insert"
    /\ up_cache' = insert_batch(up_cache, up_topics)
    /\ last_full_refresh' = tc_now
    /\ up_topics' = <<>>
    /\ up_pc' = "loop"
    /\ UNCHANGED <<tc_db, tc_cache, tc_now, refresh_readers, refresh_writer, tcalls, tc_ret,
                   tc_writes>>
    /\ UNCHANGED <<aggVars, kvVars, archive, apiVars, natsVars, resultVars>>

\* incremental_cache_update, lines 351-356: last_full_refresh is read and
\* the find with updated_at >= last_refresh completes, or fails and the
\* updater starts full_cache_update.
incremental_cache_update ==
    /\ up_pc = "loop"
    /\ \/ /\ up_topics' = FindSince(tc_db, last_full_refresh)
          /\ up_pc' = "incr_insert"
          /\ UNCHANGED faults
       \/ /\ faults < MaxTopicFaults
          /\ faults' = faults + 1
          /\ up_pc' = "full"
          /\ UNCHANGED up_topics
    /\ UNCHANGED <<tc_db, tc_cache, up_cache, last_full_refresh, tc_now, refresh_readers,
                   refresh_writer, tcalls, tc_ret, tc_writes>>
    /\ UNCHANGED <<procVars, kvVars, archive, apiVars, natsVars, resultVars>>

\* incremental_cache_update, lines 359-363: insert of each topic read.
incremental_cache_update_insert ==
    /\ up_pc = "incr_insert"
    /\ up_cache' = insert_batch(up_cache, up_topics)
    /\ up_topics' = <<>>
    /\ up_pc' = "loop"
    /\ UNCHANGED <<tc_db, tc_cache, last_full_refresh, tc_now, refresh_readers,
                   refresh_writer, tcalls, tc_ret, tc_writes>>
    /\ UNCHANGED <<aggVars, kvVars, archive, apiVars, natsVars, resultVars>>

\* full_cache_update, lines 373-378: the find and its cursor complete with
\* the stored topics, or fail and the updater is back in its loop.
full_cache_update ==
    /\ up_pc = "full"
    /\ \/ /\ up_topics' = FindAll(tc_db)
          /\ up_pc' = "full_insert"
          /\ UNCHANGED faults
       \/ /\ faults < MaxTopicFaults
          /\ faults' = faults + 1
          /\ up_pc' = "loop"
          /\ UNCHANGED up_topics
    /\ UNCHANGED <<tc_db, tc_cache, up_cache, last_full_refresh, tc_now, refresh_readers,
                   refresh_writer, tcalls, tc_ret, tc_writes>>
    /\ UNCHANGED <<procVars, kvVars, archive, apiVars, natsVars, resultVars>>

\* full_cache_update, lines 380-381: insert_batch of the topics read, then
\* last_full_refresh = Utc::now().
full_cache_update_insert ==
    /\ up_pc = "full_insert"
    /\ up_cache' = insert_batch(up_cache, up_topics)
    /\ last_full_refresh' = tc_now
    /\ up_topics' = <<>>
    /\ up_pc' = "loop"
    /\ UNCHANGED <<tc_db, tc_cache, tc_now, refresh_readers, refresh_writer, tcalls, tc_ret,
                   tc_writes>>
    /\ UNCHANGED <<aggVars, kvVars, archive, apiVars, natsVars, resultVars>>

\* TopicService::new: both maps empty (the updater gets a clone of the
\* TopicCache, whose DashMap is copied and whose last_full_refresh is
\* shared), refresh_lock free.
InitTopicWith(db) ==
    /\ tc_db = db
    /\ tc_cache = << >>
    /\ up_cache = << >>
    /\ last_full_refresh = 1
    /\ tc_now = 1
    /\ refresh_readers = 0
    /\ refresh_writer = FALSE
    /\ tcalls = [c \in TopicCallers \cup ResultCallers |-> IdleCall]
    /\ tc_ret = NoReturn
    /\ up_pc = "warm"
    /\ up_topics = <<>>
    /\ tc_writes = 0

InitTopic == InitTopicWith(<<StoredTopic>>)

\* The topics TopicCache::insert is called with and finds cached.
TopicVersions ==
    { [StoredTopic EXCEPT !.updated_at = u, !.name = n, !.description = d, !.is_active = a] :
        u \in 0..MaxTime, n \in {"n1", "n2"}, d \in {"d1", "d2"}, a \in BOOLEAN }

\* The maps TopicCache::insert is called on: empty, or the topic cached in
\* some version with or without a memoized pool.
InsertCaches ==
    {<< >>} \cup { (TcId :> [data |-> v, pool |-> pl]) :
                      v \in TopicVersions, pl \in {<<>>, <<1, 2>>} }

\* A call of TopicCache::insert(topic) on the serving cache.
cache_insert(topic) ==
    /\ tc_cache' = insert(tc_cache, topic).cache
    /\ tc_ret' = [NoReturn EXCEPT !.op = "insert", !.ok = insert(tc_cache, topic).ret,
                                  !.topic = topic]
    /\ UNCHANGED <<tc_db, up_cache, last_full_refresh, tc_now, refresh_readers,
                   refresh_writer, tcalls, up_pc, up_topics, tc_writes>>
    /\ UNCHANGED <<aggVars, kvVars, archive, apiVars, natsVars, resultVars>>

\* ------------------------------------------ /results/final_order handler
\* The operators of the candidate pools.
MaxOperators == 3
\* The /results requests of one behaviour.
MaxQueries == 3
OperatorIds == 1..MaxOperators

\* The win and lose counts op_stats holds for an operator.
OperatorCounts ==
    { [win |-> 0, lose |-> 0], [win |-> 70, lose |-> 30], [win |-> 7, lose |-> 3],
      [win |-> 1, lose |-> 1], [win |-> 2, lose |-> 2], [win |-> 0, lose |-> 5] }

\* The candidate pools: every order of the operators.
CandidatePools == IterationOrders(OperatorIds)

\* OperatorResult::new.  rate = win * 100 / total is kept as the fraction
\* num / den (0 / 1 when total is not positive) and score = (win - lose) /
\* 100 as its numerator: on these counts the f64 values are ordered and
\* equal exactly as the fractions are.
OperatorResultNew(id, win, lose) ==
    LET total == win + lose
    IN  [id |-> id, win |-> win, lose |-> lose,
         score |-> win - lose,
         rate |-> IF total > 0 THEN [num |-> win * 100, den |-> total]
                               ELSE [num |-> 0, den |-> 1]]

\* build_operator_results: the operator at index i gets win_counts[i] and
\* lose_counts[i].
build_operator_results(operator_ids, win_counts, lose_counts) ==
    [i \in 1..Len(operator_ids) |->
        OperatorResultNew(operator_ids[i], win_counts[i], lose_counts[i])]

\* Option<String> values of the script reply.
None == [some |-> FALSE, s |-> <<>>]
Some(s) == [some |-> TRUE, s |-> s]

Digits == <<"0", "1", "2", "3", "4", "5", "6", "7", "8", "9">>
IsDigit(ch) == \E d \in DOMAIN Digits : Digits[d] = ch
DigitValue(ch) == (CHOOSE d \in DOMAIN Digits : Digits[d] = ch) - 1

\* The value of a string of decimal digits.
RECURSIVE DigitsValue(_, _)
DigitsValue(acc, s) ==
    IF s = <<>> THEN acc ELSE DigitsValue(acc * 10 + DigitValue(Head(s)), Tail(s))

\* str::parse::<i64>: an optional sign and at least one decimal digit,
\* nothing else.
ParseI64(s) ==
    LET signed == s # <<>> /\ Head(s) \in {"+", "-"}
        body == IF signed THEN Tail(s) ELSE s
    IN  IF body = <<>> \/ \E i \in DOMAIN body : ~IsDigit(body[i])
        THEN [ok |-> FALSE, value |-> 0]
        ELSE [ok |-> TRUE,
              value |-> IF signed /\ Head(s) = "-" THEN -DigitsValue(0, body)
                        ELSE DigitsValue(0, body)]

\* v.as_ref().and_then(|s| s.parse().ok()).unwrap_or(0)
ParsedOrZero(v) == IF v.some /\ ParseI64(v.s).ok THEN ParseI64(v.s).value ELSE 0

\* The lose counts taken from the same half of the reply as the win counts.
lose_counts_from_wins(values, num_operators) ==
    [i \in 1..(Len(values) - num_operators) |-> ParsedOrZero(values[i])]

\* parse_operator_counts: values[..num_operators]
win_counts_of(values, num_operators) ==
    [i \in 1..num_operators |-> ParsedOrZero(values[i])]

\* parse_operator_counts: values[num_operators..]
lose_counts_of(values, num_operators) ==
    [i \in 1..(Len(values) - num_operators) |-> ParsedOrZero(values[num_operators + i])]

\* The decimal digits of a natural number.
RECURSIVE NatToStr(_)
NatToStr(n) ==
    IF n < 10 THEN <<Digits[n + 1]>> ELSE NatToStr(n \div 10) \o <<Digits[(n % 10) + 1]>>

\* A hash value as the reply carries it: the integer in decimal.
IntToStr(n) == IF n < 0 THEN <<"-">> \o NatToStr(-n) ELSE NatToStr(n)

\* Ord::cmp on integers.
IntCmp(x, y) == IF x < y THEN "Less" ELSE IF x > y THEN "Greater" ELSE "Equal"

\* OrderedFloat::cmp on two rates.
RateCmp(x, y) == IntCmp(x.num * y.den, y.num * x.den)

\* Ord::cmp on tuples: the first component that is not Equal decides.
RECURSIVE TupleCmp(_)
TupleCmp(cs) ==
    IF cs = <<>> THEN "Equal"
    ELSE IF Head(cs) # "Equal" THEN Head(cs)
    ELSE TupleCmp(Tail(cs))

\* The closure of sort_by without the id components.
compare_without_id(a, b) ==
    TupleCmp(<<RateCmp(b.rate, a.rate), IntCmp(b.score, a.score), IntCmp(b.win, a.win)>>)

\* The closure passed to sort_by:
\* (b.rate, b.score, b.win, a.id).cmp(&(a.rate, a.score, a.win, b.id))
compare(a, b) ==
    TupleCmp(<<RateCmp(b.rate, a.rate), IntCmp(b.score, a.score), IntCmp(b.win, a.win),
               IntCmp(a.id, b.id)>>)

\* One insertion of the stable sort: x goes before the first element that
\* compares Greater than x.
SortInsert(sorted, x) ==
    LET later == {i \in 1..Len(sorted) : compare(sorted[i], x) = "Greater"}
        at == IF later = {} THEN Len(sorted) + 1
              ELSE CHOOSE i \in later : \A j \in later : i <= j
    IN  SubSeq(sorted, 1, at - 1) \o <<x>> \o SubSeq(sorted, at, Len(sorted))

\* slice::sort_by (a stable sort).
RECURSIVE sort_by(_, _)
sort_by(sorted, rest) ==
    IF rest = <<>> THEN sorted
    ELSE sort_by(SortInsert(sorted, Head(rest)), Tail(rest))

\* The items results_final_order_fn computes for a pool and the counts.
final_order(pool, counts) ==
    sort_by(<<>>, build_operator_results(pool, [i \in DOMAIN pool |-> counts[pool[i]].win],
                                         [i \in DOMAIN pool |-> counts[pool[i]].lose]))

\* The items results_final_order_fn computes from the reply of the script.
final_order_of_values(pool, values) ==
    sort_by(<<>>, build_operator_results(pool, win_counts_of(values, Len(pool)),
                                         lose_counts_of(values, Len(pool))))

\* results_final_order_fn, lines 165-179: build_operator_results on the
\* counts parsed for the pool, then sort_by.
results_final_order_sort ==
    /\ fo_items = <<>>
    /\ fo_items' = final_order(fo_pool, fo_stats)
    /\ UNCHANGED <<poolVars, webVars, fo_stats, fo_pool, fo_values, results_cache_store, rcalls, r_ret, r_inserted, r_started>>
    /\ UNCHANGED <<aggVars, kvVars, archive, apiVars, natsVars, topicVars>>

\* ------------------------------------ /results handlers and result cache
ResultsTypes == {"FinalOrder", "Matrix1v1"}

\* VotingTopicType::supports_final_order and supports_1v1_matrix
supports_final_order(topic_type) == topic_type = "Pairwise"
supports_1v1_matrix(topic_type) == topic_type = "Pairwise"

\* No response (Option::None of a ResultsCacheValue field).  A response
\* carries the topic and variant it was computed for and the thread that
\* computed it.
NoResult ==
    [topic |-> "none", variant |-> "none", by |-> "none",
     matrix |-> EmptyHash, items |-> <<>>, count |-> 0]

\* ResultsCacheValue::default
DefaultCacheValue == [final_order |-> NoResult, matrix |-> NoResult]

\* A cache key that leaves the variant out.
CacheKeyTopicOnly(topic, variant) == <<topic, "FinalOrder">>

\* cache_key = (target_topic.id, ResultsType::...)
CacheKey(topic, variant) == <<topic, variant>>

\* The field of a ResultsCacheValue the handler of a variant uses.
FieldOf(value, variant) ==
    IF variant = "FinalOrder" THEN value.final_order ELSE value.matrix

\* cached.final_order = Some(response) / cached.matrix = Some(response)
WithField(value, variant, rsp) ==
    IF variant = "FinalOrder" THEN [value EXCEPT !.final_order = rsp]
    ELSE [value EXCEPT !.matrix = rsp]

\* The count of "a:b" looked up under "a:b" itself.
Matrix1v1SameKey(data, counter_data) ==
    [f \in DOMAIN data |-> [score |-> data[f], count |-> HGet(counter_data, f)]]

\* The loop of results_1v1_matrix_fn over the fields of op_matrix: the
\* count of "a:b" is looked up under "{min}:{max}".
Matrix1v1(data, counter_data) ==
    [f \in DOMAIN data |->
        [score |-> data[f],
         count |-> HGet(counter_data, IF f[1] < f[2] THEN <<f[1], f[2]>> ELSE <<f[2], f[1]>>)]]

\* The hash stored under the key of topic t in a family of keys: a key
\* that was never written reads as the empty hash.
HashOf(family, t) == IF t \in DOMAIN family THEN family[t] ELSE EmptyHash

\* LUA_SCRIPT_GET_FINAL_ORDER: HMGET of the win fields, then the lose
\* fields, of {topic}:op_stats.
FinalOrderScript(hash, operator_ids) ==
    LET n == Len(operator_ids)
        field(i) == IF i <= n THEN <<operator_ids[i], "win">>
                    ELSE <<operator_ids[i - n], "lose">>
    IN  [i \in 1..(2 * n) |->
            IF field(i) \in DOMAIN hash THEN Some(IntToStr(hash[field(i)])) ELSE None]

\* A request thread outside of the /results handlers.  In a handler,
\* request is req.topic_id, topic is target_topic.id, data and counter_data
\* are the hashes read, rsp the response built and cached the
\* ResultsCacheValue to insert.
IdleResultCall ==
    [pc |-> "idle", request |-> "none", topic |-> "none", variant |-> "none",
     data |-> EmptyHash, counter_data |-> EmptyHash, rsp |-> NoResult,
     cached |-> DefaultCacheValue]

NoResultReturn ==
    [topic |-> "none", variant |-> "none", status |-> -1,
     of_topic |-> "none", of_variant |-> "none", by |-> "none"]

\* The response to the request of c for (topic, variant): the status and
\* which computation the body comes from.
ResultReturn(c, topic, variant, status, rsp) ==
    [topic |-> topic, variant |-> variant, status |-> status,
     of_topic |-> rsp.topic, of_variant |-> rsp.variant, by |-> rsp.by]

\* The request thread c enters a /results handler with req.topic_id = t and
\* calls get_topic, which looks the topic cache up (topic.rs, line 177).
results_get_topic(c, t, variant) ==
    /\ rcalls[c].pc = "idle"
    /\ tcalls[c].pc = "idle"
    /\ r_started < MaxQueries
    /\ r_started' = r_started + 1
    /\ rcalls' = [rcalls EXCEPT ![c] =
                     [IdleResultCall EXCEPT !.pc = "get_topic", !.request = t,
                                            !.variant = variant]]
    /\ get_topic_enter(c, "get_topic", t)
    /\ UNCHANGED <<tc_db, tc_cache, up_cache, last_full_refresh, tc_now, refresh_readers,
                   refresh_writer, up_pc, up_topics, tc_writes>>
    /\ UNCHANGED <<poolVars, webVars, fo_stats, fo_pool, fo_items, fo_values,
                   results_cache_store, r_ret, r_inserted>>
    /\ UNCHANGED <<aggVars, kvVars, archive, apiVars, natsVars>>

\* POST /results/1v1_matrix, lines 12-17: the handler calls get_topic.
results_1v1_matrix_fn(c, t) == results_get_topic(c, t, "Matrix1v1")

\* POST /results/final_order, lines 87-92: the handler calls get_topic.
results_final_order_fn(c, t) == results_get_topic(c, t, "FinalOrder")

\* Both handlers once get_topic has returned (final_order 92-122,
\* 1v1_matrix 17-44): an error is answered 404, no topic or a topic whose
\* type does not support the variant 500; otherwise
\* results_cache_store.get(&cache_key).await returns, and a cached response
\* of the variant is the answer.
results_cache_lookup(c) ==
    /\ rcalls[c].pc = "get_topic"
    /\ tcalls[c].pc = "done"
    /\ tcalls' = [tcalls EXCEPT ![c] = IdleCall]
    /\ LET variant == rcalls[c].variant
           target_topic == tcalls[c].topic
           cache_key == CacheKey(target_topic.id, variant)
           answer(status, rsp) ==
               /\ r_ret' = ResultReturn(c, rcalls[c].request, variant, status, rsp)
               /\ rcalls' = [rcalls EXCEPT ![c] = IdleResultCall]
       IN  IF ~tcalls[c].ok THEN answer(404, NoResult)
           ELSE IF \/ ~tcalls[c].found
                   \/ variant = "FinalOrder" /\ ~supports_final_order(target_topic.topic_type)
                   \/ variant = "Matrix1v1" /\ ~supports_1v1_matrix(target_topic.topic_type)
           THEN answer(500, NoResult)
           ELSE IF /\ cache_key \in DOMAIN results_cache_store
                   /\ FieldOf(results_cache_store[cache_key], variant) # NoResult
           THEN answer(0, FieldOf(results_cache_store[cache_key], variant))
           ELSE /\ rcalls' = [rcalls EXCEPT
                                 ![c].pc = IF variant = "FinalOrder" THEN "pool" ELSE "read",
                                 ![c].topic = target_topic.id]
                /\ UNCHANGED r_ret
    /\ UNCHANGED <<tc_db, tc_cache, up_cache, last_full_refresh, tc_now, refresh_readers,
                   refresh_writer, tc_ret, up_pc, up_topics, tc_writes>>
    /\ UNCHANGED <<poolVars, webVars, fo_stats, fo_pool, fo_items, fo_values,
                   results_cache_store, r_inserted, r_started>>
    /\ UNCHANGED <<aggVars, kvVars, archive, apiVars, natsVars>>

\* results_1v1_matrix_fn, lines 48-58: HGETALL {topic}:op_matrix returns
\* the hash, or fails and the request is answered 500.
hgetall_op_matrix(c) ==
    /\ rcalls[c].pc = "read"
    /\ rcalls[c].variant = "Matrix1v1"
    /\ \/ /\ r_ret' = ResultReturn(c, rcalls[c].request, "Matrix1v1", 500, NoResult)
          /\ rcalls' = [rcalls EXCEPT ![c] = IdleResultCall]
       \/ /\ rcalls' = [rcalls EXCEPT ![c].pc = "read_counter",
                                      ![c].data = HashOf(op_matrix, rcalls[c].topic)]
          /\ UNCHANGED r_ret
    /\ UNCHANGED <<poolVars, webVars, fo_stats, fo_pool, fo_items, fo_values, results_cache_store, r_inserted, r_started>>
    /\ UNCHANGED <<aggVars, kvVars, archive, apiVars, natsVars, topicVars>>

\* results_1v1_matrix_fn, lines 60-102: HGETALL {topic}:op_counter returns
\* the hash and the response is built from the two hashes read, or the
\* call fails and the request is answered 500.
hgetall_op_counter(c) ==
    /\ rcalls[c].pc = "read_counter"
    /\ \/ /\ r_ret' = ResultReturn(c, rcalls[c].request, "Matrix1v1", 500, NoResult)
          /\ rcalls' = [rcalls EXCEPT ![c] = IdleResultCall]
       \/ /\ rcalls' = [rcalls EXCEPT
                ![c].pc = "get",
                ![c].counter_data = HashOf(op_counter, rcalls[c].topic),
                ![c].rsp = [NoResult EXCEPT
                               !.topic = rcalls[c].request, !.variant = "Matrix1v1", !.by = c,
                               !.matrix = Matrix1v1(rcalls[c].data,
                                                    HashOf(op_counter, rcalls[c].topic))]]
          /\ UNCHANGED r_ret
    /\ UNCHANGED <<poolVars, webVars, fo_stats, fo_pool, fo_items, fo_values, results_cache_store, r_inserted, r_started>>
    /\ UNCHANGED <<aggVars, kvVars, archive, apiVars, natsVars, topicVars>>

\* results_final_order_fn, line 124: get_candidate_pool is called, which
\* looks the memoized pool up (topic.rs, line 243).
results_get_candidate_pool(c) ==
    /\ rcalls[c].pc = "pool"
    /\ tcalls[c].pc = "idle"
    /\ rcalls' = [rcalls EXCEPT ![c].pc = "script"]
    /\ get_candidate_pool_enter(c, rcalls[c].topic)
    /\ UNCHANGED <<tc_db, tc_cache, up_cache, last_full_refresh, tc_now, refresh_readers,
                   refresh_writer, up_pc, up_topics, tc_writes>>
    /\ UNCHANGED <<poolVars, webVars, fo_stats, fo_pool, fo_items, fo_values,
                   results_cache_store, r_ret, r_inserted, r_started>>
    /\ UNCHANGED <<aggVars, kvVars, archive, apiVars, natsVars>>

\* results_final_order_fn once get_candidate_pool has returned, lines
\* 124-195: None is answered 404; for a pool the final-order script is
\* invoked with the win and lose fields of its operators and returns, and
\* the response is built from its reply, or the script fails and the
\* request is answered 500.
final_order_script(c) ==
    /\ rcalls[c].pc = "script"
    /\ tcalls[c].pc = "done"
    /\ tcalls' = [tcalls EXCEPT ![c] = IdleCall]
    /\ IF ~tcalls[c].found
       THEN /\ r_ret' = ResultReturn(c, rcalls[c].request, "FinalOrder", 404, NoResult)
            /\ rcalls' = [rcalls EXCEPT ![c] = IdleResultCall]
       ELSE \/ /\ r_ret' = ResultReturn(c, rcalls[c].request, "FinalOrder", 500, NoResult)
               /\ rcalls' = [rcalls EXCEPT ![c] = IdleResultCall]
            \/ /\ rcalls' = [rcalls EXCEPT
                     ![c].pc = "get",
                     ![c].rsp = [NoResult EXCEPT
                                    !.topic = rcalls[c].request, !.variant = "FinalOrder",
                                    !.by = c,
                                    !.items = final_order_of_values(
                                                  tcalls[c].pool,
                                                  FinalOrderScript(
                                                      HashOf(op_stats, rcalls[c].request),
                                                      tcalls[c].pool)),
                                    !.count = IF rcalls[c].request \in DOMAIN valid_ballots_count
                                              THEN valid_ballots_count[rcalls[c].request]
                                              ELSE 0]]
               /\ UNCHANGED r_ret
    /\ UNCHANGED <<tc_db, tc_cache, up_cache, last_full_refresh, tc_now, refresh_readers,
                   refresh_writer, tc_ret, up_pc, up_topics, tc_writes>>
    /\ UNCHANGED <<poolVars, webVars, fo_stats, fo_pool, fo_items, fo_values,
                   results_cache_store, r_inserted, r_started>>
    /\ UNCHANGED <<aggVars, kvVars, archive, apiVars, natsVars>>

\* Both handlers (final_order 197-203, 1v1_matrix 104-112):
\* results_cache_store.get(&cache_key).await.unwrap_or_default() returns,
\* and the response is set on the value got.
results_cache_get(c) ==
    /\ rcalls[c].pc = "get"
    /\ LET key == CacheKey(rcalls[c].topic, rcalls[c].variant)
           got == IF key \in DOMAIN results_cache_store THEN results_cache_store[key]
                  ELSE DefaultCacheValue
       IN  rcalls' = [rcalls EXCEPT ![c].pc = "insert",
                                    ![c].cached = WithField(got, rcalls[c].variant, rcalls[c].rsp)]
    /\ UNCHANGED <<poolVars, webVars, fo_stats, fo_pool, fo_items, fo_values, results_cache_store, r_ret, r_inserted, r_started>>
    /\ UNCHANGED <<aggVars, kvVars, archive, apiVars, natsVars, topicVars>>

\* Both handlers (final_order 204-210, 1v1_matrix 113-119):
\* results_cache_store.insert(cache_key, cached).await completes and the
\* request is answered OK with the response built.
results_cache_insert(c) ==
    /\ rcalls[c].pc = "insert"
    /\ LET key == CacheKey(rcalls[c].topic, rcalls[c].variant)
       IN  results_cache_store' =
               [k \in DOMAIN results_cache_store \cup {key} |->
                   IF k = key THEN rcalls[c].cached ELSE results_cache_store[k]]
    /\ r_inserted' = r_inserted \cup {<<rcalls[c].topic, rcalls[c].variant>>}
    /\ r_ret' = ResultReturn(c, rcalls[c].request, rcalls[c].variant, 0, rcalls[c].rsp)
    /\ rcalls' = [rcalls EXCEPT ![c] = IdleResultCall]
    /\ UNCHANGED <<poolVars, webVars, fo_stats, fo_pool, fo_items, fo_values, r_started>>
    /\ UNCHANGED <<aggVars, kvVars, archive, apiVars, natsVars, topicVars>>

\* An entry of the result cache reaches its time to live.
results_cache_expire(t, variant) ==
    /\ CacheKey(t, variant) \in DOMAIN results_cache_store
    /\ results_cache_store' =
           [k \in DOMAIN results_cache_store \ {CacheKey(t, variant)} |-> results_cache_store[k]]
    /\ r_inserted' = {k \in r_inserted : CacheKey(k[1], k[2]) # CacheKey(t, variant)}
    /\ UNCHANGED <<poolVars, webVars, fo_stats, fo_pool, fo_items, fo_values, rcalls, r_ret, r_started>>
    /\ UNCHANGED <<aggVars, kvVars, archive, apiVars, natsVars, topicVars>>

\* The values the script may reply with for the win and the lose field of
\* one operator, each with the count it stands for.
ScriptValuePairs ==
    { [win |-> [text |-> Some(<<"7", "0">>), means |-> 70],
       lose |-> [text |-> Some(<<"3", "0">>), means |-> 30]],
      [win |-> [text |-> None, means |-> 0],
       lose |-> [text |-> Some(<<"5">>), means |-> 5]],
      [win |-> [text |-> Some(<<"x">>), means |-> 0],
       lose |-> [text |-> Some(<<"7">>), means |-> 7]],
      [win |-> [text |-> Some(<<"1", "2">>), means |-> 12],
       lose |-> [text |-> None, means |-> 0]],
      [win |-> [text |-> Some(<<>>), means |-> 0],
       lose |-> [text |-> Some(<<"1", ".", "5">>), means |-> 0]],
      [win |-> [text |-> Some(<<"3">>), means |-> 3],
       lose |-> [text |-> Some(<<"3">>), means |-> 3]] }

\* The reply for a pool of n operators: the win values, then the lose
\* values.
ScriptReply(pairs) ==
    [i \in 1..(2 * Len(pairs)) |->
        IF i <= Len(pairs) THEN pairs[i].win ELSE pairs[i - Len(pairs)].lose]

\* POST /results/final_order from the reply of the script on.
results_final_order_parse ==
    /\ fo_items = <<>>
    /\ fo_values # <<>>
    /\ fo_items' = final_order_of_values(fo_pool, [i \in DOMAIN fo_values |-> fo_values[i].text])
    /\ UNCHANGED <<poolVars, webVars, fo_stats, fo_pool, fo_values, results_cache_store, rcalls, r_ret, r_inserted,
                   r_started>>
    /\ UNCHANGED <<aggVars, kvVars, archive, apiVars, natsVars, topicVars>>

\* No request has been answered.
\* ------------------------------- CandidatePoolPreset (share, pool presets)

\* RarityRank::to_numeric
to_numeric(rarity) ==
    CASE rarity = "Tier1" -> 1
      [] rarity = "Tier2" -> 2
      [] rarity = "Tier3" -> 3
      [] rarity = "Tier4" -> 4
      [] rarity = "Tier5" -> 5
      [] rarity = "Tier6" -> 6
      [] OTHER -> 0

\* Option<RarityRank>: a rank, or NoRarity for None.
NoRarity == "None"

\* CharacterInfo::matches_rarities, matches_professions, matches_sub_professions
matches_rarities(c, rarities) == c.rarity \in SeqRange(rarities)
matches_professions(c, professions) == c.profession \in SeqRange(professions)
matches_sub_professions(c, sub_professions) == c.sub_profession_id \in SeqRange(sub_professions)

\* CharacterInfo::rarity_in_range
rarity_in_range(c, min, max) ==
    /\ ~(min # NoRarity /\ to_numeric(c.rarity) < to_numeric(min))
    /\ ~(max # NoRarity /\ to_numeric(c.rarity) > to_numeric(max))

\* character_infos.iter().filter(keep).map(|c| c.id).collect()
filter_ids(character_infos, keep(_)) ==
    LET kept == SelectSeq(character_infos, keep)
    IN  [i \in 1..Len(kept) |-> kept[i].id]

\* The variants of CandidatePoolPreset.  A preset is a record of one shape;
\* the fields a variant does not have are empty.
Preset(kind) ==
    [kind |-> kind, operator_ids |-> <<>>, rarities |-> <<>>, professions |-> <<>>,
     sub_professions |-> <<>>, filter |-> <<>>, presets |-> <<>>]
All == Preset("All")
CustomIds(operator_ids) == [Preset("Custom") EXCEPT !.operator_ids = operator_ids]
ByRarity(rarities) == [Preset("ByRarity") EXCEPT !.rarities = rarities]
ByProfession(professions) == [Preset("ByProfession") EXCEPT !.professions = professions]
BySubProfession(sub_professions) ==
    [Preset("BySubProfession") EXCEPT !.sub_professions = sub_professions]
Filter(f) == [Preset("Filter") EXCEPT !.filter = <<f>>]
Union(presets) == [Preset("Union") EXCEPT !.presets = presets]
Intersection(presets) == [Preset("Intersection") EXCEPT !.presets = presets]
Difference(base, exclude) == [Preset("Difference") EXCEPT !.presets = <<base, exclude>>]

\* CandidatePoolPresetFilter::default()
DefaultFilter ==
    [rarities |-> None, professions |-> None, sub_professions |-> None,
     exclude_ids |-> None, include_ids |-> None,
     min_rarity |-> NoRarity, max_rarity |-> NoRarity]

\* The Filter arm of generate_pool: the characters passing every given
\* criterion, without exclude_ids, followed by each include_ids entry that is
\* a catalog id and was not among them when the loop started.
filter_pool(f, character_infos) ==
    LET keep(c) ==
            /\ ~(f.rarities.some /\ ~matches_rarities(c, f.rarities.s))
            /\ ~(f.professions.some /\ ~matches_professions(c, f.professions.s))
            /\ ~(f.sub_professions.some /\ ~matches_sub_professions(c, f.sub_professions.s))
            /\ rarity_in_range(c, f.min_rarity, f.max_rarity)
        matching == filter_ids(character_infos, keep)
        filtered ==
            IF f.exclude_ids.some
            THEN SelectSeq(matching, LAMBDA id : id \notin SeqRange(f.exclude_ids.s))
            ELSE matching
        valid_ids == {character_infos[i].id : i \in DOMAIN character_infos}
        filtered_set == SeqRange(filtered)
    IN  IF f.include_ids.some
        THEN filtered \o SelectSeq(f.include_ids.s,
                                   LAMBDA id : id \in valid_ids /\ id \notin filtered_set)
        ELSE filtered

\* HashSet::into_iter().collect(): the elements once each, in any order.
into_iter_collect(result_set) == IterationOrders(result_set)

\* CandidatePoolPreset::generate_pool (candidate_pool_preset.rs): the lists
\* the call can return.  The arms that walk a list return one list; the arms
\* that collect a HashSet return its elements in an order the hasher picks.
\* Every list an arm can return has the same elements, so a parent that
\* collects a child's pool into a set sees one set.
RECURSIVE preset_generate_pool(_, _)
pool_set(preset, character_infos) ==
    SeqRange(CHOOSE pool \in preset_generate_pool(preset, character_infos) : TRUE)
\* An intersection that keeps the first set whatever the other holds.
intersection_keeps_first(result_set, pool) == result_set
\* HashSet::intersection
intersection(result_set, pool) == result_set \cap pool
RECURSIVE intersect_from(_, _, _, _)
intersect_from(result_set, presets, i, character_infos) ==
    IF i > Len(presets) THEN result_set
    ELSE intersect_from(intersection(result_set, pool_set(presets[i], character_infos)),
                        presets, i + 1, character_infos)
preset_generate_pool(preset, character_infos) ==
    CASE preset.kind = "All" ->
            {filter_ids(character_infos, LAMBDA c : TRUE)}
      [] preset.kind = "Custom" ->
            LET valid_ids == {character_infos[i].id : i \in DOMAIN character_infos}
            IN  {SelectSeq(preset.operator_ids, LAMBDA id : id \in valid_ids)}
      [] preset.kind = "ByRarity" ->
            {filter_ids(character_infos, LAMBDA c : matches_rarities(c, preset.rarities))}
      [] preset.kind = "ByProfession" ->
            {filter_ids(character_infos,
                        LAMBDA c : matches_professions(c, preset.professions))}
      [] preset.kind = "BySubProfession" ->
            {filter_ids(character_infos,
                        LAMBDA c : matches_sub_professions(c, preset.sub_professions))}
      [] preset.kind = "Filter" ->
            {filter_pool(preset.filter[1], character_infos)}
      [] preset.kind = "Union" ->
            into_iter_collect(UNION {pool_set(preset.presets[i], character_infos) :
                                        i \in DOMAIN preset.presets})
      [] preset.kind = "Intersection" ->
            IF preset.presets = <<>> THEN {<<>>}
            ELSE into_iter_collect(
                     intersect_from(pool_set(preset.presets[1], character_infos),
                                    preset.presets, 2, character_infos))
      [] preset.kind = "Difference" ->
            into_iter_collect(pool_set(preset.presets[1], character_infos)
                                 \ pool_set(preset.presets[2], character_infos))

\* No call of generate_pool has been made.
NoPool == [returned |-> FALSE, pool |-> <<>>]
InitPool ==
    /\ gp_preset = All
    /\ gp_infos = <<>>
    /\ gp_pool = NoPool

\* A call of generate_pool on the preset and catalog at hand.
generate_pool_call ==
    /\ gp_pool = NoPool
    /\ \E pool \in preset_generate_pool(gp_preset, gp_infos) :
          gp_pool' = [returned |-> TRUE, pool |-> pool]
    /\ UNCHANGED <<gp_preset, gp_infos, webVars>>
    /\ UNCHANGED <<fo_stats, fo_pool, fo_items, fo_values, results_cache_store, rcalls, r_ret,
                   r_inserted, r_started>>
    /\ UNCHANGED <<aggVars, kvVars, archive, apiVars, natsVars, topicVars>>

InitResultsBase ==
    /\ fo_stats = [id \in OperatorIds |-> [win |-> 70, lose |-> 30]]
    /\ fo_pool = [i \in OperatorIds |-> i]
    /\ fo_items = <<>>
    /\ fo_values = <<>>
    /\ results_cache_store = << >>
    /\ rcalls = [c \in ResultCallers |-> IdleResultCall]
    /\ r_ret = NoResultReturn
    /\ r_inserted = {}
    /\ r_started = 0
    /\ InitPool

InitResults == InitResultsBase /\ InitWeb

\* The aggregates after a flush of the updates us: both scripts ran, or
\* the 1v1 record script failed after the score update script.
AggregatesAfter(us, recorded) ==
    LET kv == BatchScoreUpdateScript(
                  [stats |-> [t \in Topics |-> EmptyHash],
                   matrix |-> [t \in Topics |-> EmptyHash],
                   valid |-> [t \in Topics |-> 0]], us)
    IN  [stats |-> kv.stats, matrix |-> kv.matrix, valid |-> kv.valid,
         counter |-> IF recorded
                     THEN BatchRecord1v1Script([t \in Topics |-> EmptyHash], Args2(us))
                     ELSE [t \in Topics |-> EmptyHash]]

\* ---------------------------------------------------------- specifications
InitStores ==
    /\ op_stats = [t \in Topics |-> EmptyHash]
    /\ op_matrix = [t \in Topics |-> EmptyHash]
    /\ op_counter = [t \in Topics |-> EmptyHash]
    /\ valid_ballots_count = [t \in Topics |-> 0]
    /\ ip_counter = [k \in Topics \X IPs |-> 0]
    /\ archive = [t \in Topics |-> <<>>]

InitProcessorWith(capacity) ==
    /\ channel = <<>>
    /\ closed = FALSE
    /\ worker = "running"
    /\ groups = [pairwise |-> <<>>, setwise |-> <<>>, groupwise |-> <<>>,
                 plurality |-> <<>>, capacity |-> capacity, total_count |-> 0]
    /\ attempt = 0
    /\ flush = IdleFlush
    /\ batch = EmptyBatch
    /\ ticks = 0
    /\ stats = [total_processed |-> 0, successful_batches |-> 0, failed_batches |-> 0]
    /\ failedLog = <<>>
    /\ nextSeq = 0
    /\ faults = 0

\* BallotMessageGroup::with_capacity(1000) of batch_processor_task
DefaultCapacity == 1000
InitProcessor == InitProcessorWith(DefaultCapacity)

Init ==
    /\ cfg \in Configs
    /\ InitProcessor
    /\ InitStores
    /\ InitApi
    /\ InitNats
    /\ InitTopic
    /\ InitResults

\* The handlers of portable-service with the clock of the topics.
NextSave ==
    \/ \E t \in Topics : clock_passes(t)
    \/ \E t \in TopicIds : ballot_create_get_topic(t)
    \/ \E c \in creating : ballot_create_get_candidate_pool(c)
    \/ \E c \in creating : ballot_create_insert(c)
    \/ \E t \in Topics : \E id \in BallotIds : ballot_skip_fn(t, id)
    \/ \E req \in SaveRequests : ballot_save_get_topic(req)
    \/ \E s \in inflight : ballot_save_remove(s)
    \/ \E s \in inflight : ballot_save_submit(s)

\* Every service but the web-service, freshly started.
InitBackend ==
    /\ cfg = [base_multiplier |-> 2, low_multiplier |-> 1, max_ip_limit |-> 1]
    /\ InitProcessor
    /\ InitStores
    /\ InitApi
    /\ InitNats
    /\ InitTopic
    /\ InitResultsBase

InitServices == InitBackend /\ InitWeb

SpecSave == InitServices /\ [][NextSave]_vars

\* The save_score consumer of nats-service with its producers and with
\* /ballot/new of web-service, which stores the challenges it looks up.
NextConsumer ==
    \/ \E t \in TopicIds : \E linked \in BOOLEAN : web_ballot_create_get_topic(t, linked)
    \/ \E c \in creating : web_ballot_create_get_candidate_pool(c)
    \/ \E c \in creating : web_ballot_create_set_ex(c)
    \/ \E c \in creating : web_ballot_create_publish(c)
    \/ \E c \in creating : web_ballot_create_ack(c)
    \/ \E p \in NatsPayloads : publish_save_score(p)
    \/ process_save_score_step(TRUE, MaxConsumerFaults)
    \/ save_score_fetch_error
    \/ redeliver

\* The services started with the voting window of T1 open.
InitConsumer ==
    /\ cfg = [base_multiplier |-> 2, low_multiplier |-> 1, max_ip_limit |-> 1]
    /\ InitProcessor
    /\ InitStores
    /\ InitApiAt("open")
    /\ InitNats
    /\ InitTopic
    /\ InitResultsBase
    /\ InitWeb

SpecConsumer == InitConsumer /\ [][NextConsumer]_vars

\* TopicService with its request threads, the cache updater and the clock.
NextTopic ==
    \/ topic_clock_tick
    \/ \E c \in TopicCallers : get_topic(c)
    \/ \E c \in TopicCallers : get_candidate_pool(c)
    \/ \E c \in TopicCallers : get_topic_lookup(c)
    \/ \E c \in TopicCallers : get_topic_read_lock(c)
    \/ \E c \in TopicCallers : find_one_returns(c)
    \/ \E c \in TopicCallers : insert_lookup(c)
    \/ \E c \in TopicCallers : insert_store(c)
    \/ \E c \in TopicCallers : evaluate_pool(c)
    \/ \E c \in TopicCallers : \E a \in AuditCategories : audit_topic(c, a)
    \/ \E c \in TopicCallers : audit_topic_update_one(c)
    \/ \E c \in TopicCallers : \E t \in UpdateInputs : update_topic(c, t)
    \/ \E c \in TopicCallers : update_topic_replace_one(c)
    \/ \E c \in TopicCallers : delete_topic(c)
    \/ \E c \in TopicCallers : delete_topic_remove(c)
    \/ \E c \in TopicCallers : \E t \in CreateInputs : create_topic(c, t)
    \/ \E c \in TopicCallers : refresh_cache(c)
    \/ \E c \in TopicCallers : refresh_cache_find(c)

\* cache_updater of TopicService with the clock and the request threads
\* that read and write the collection it reads.
NextUpdater ==
    \/ topic_clock_tick
    \/ \E c \in TopicCallers : get_topic(c)
    \/ \E c \in TopicCallers : get_topic_read_lock(c)
    \/ \E c \in TopicCallers : find_one_returns(c)
    \/ \E c \in TopicCallers : insert_lookup(c)
    \/ \E c \in TopicCallers : insert_store(c)
    \/ \E c \in TopicCallers : \E a \in AuditCategories : audit_topic(c, a)
    \/ \E c \in TopicCallers : audit_topic_update_one(c)
    \/ \E c \in TopicCallers : get_topic_lookup(c)
    \/ \E c \in TopicCallers : delete_topic(c)
    \/ \E c \in TopicCallers : delete_topic_remove(c)
    \/ initial_warm_cache
    \/ initial_warm_cache_insert
    \/ incremental_cache_update
    \/ incremental_cache_update_insert
    \/ full_cache_update
    \/ full_cache_update_insert

SpecUpdater == InitServices /\ [][NextUpdater]_vars

SpecTopic == InitServices /\ [][NextTopic]_vars

\* The topics stored when /results is queried: two Pairwise topics with
\* different pools, a Setwise one and a Pairwise one whose pool is empty.
QueryTopics ==
    <<StoredTopic,
      [StoredTopic EXCEPT !.id = "T2", !.candidate_pool = AllOperators],
      [StoredTopic EXCEPT !.id = "T3", !.topic_type = "Setwise"],
      [StoredTopic EXCEPT !.id = "T5", !.candidate_pool = Custom(<<>>)]>>

\* The aggregates the handlers of SpecQuery read: one ballot of T1 flushed.
QueryAggregates ==
    AggregatesAfter(<<[topic |-> "T1", win |-> 1, lose |-> 2, multiplier |-> 2]>>, TRUE)

\* The /results handlers over aggregates a flush has built.
InitQuery ==
    /\ cfg = [base_multiplier |-> 2, low_multiplier |-> 1, max_ip_limit |-> 1]
    /\ InitProcessor
    /\ op_stats = QueryAggregates.stats
    /\ op_matrix = QueryAggregates.matrix
    /\ op_counter = QueryAggregates.counter
    /\ valid_ballots_count = QueryAggregates.valid
    /\ ip_counter = [k \in Topics \X IPs |-> 0]
    /\ archive = [t \in Topics |-> <<>>]
    /\ InitApi
    /\ InitNats
    /\ InitTopicWith(QueryTopics)
    /\ InitResults

\* The request threads of /results/final_order and /results/1v1_matrix,
\* every await of theirs a step, and the entries of the result cache
\* expiring.
NextQuery ==
    \/ \E c \in ResultCallers : \E t \in QueryTopicIds : results_1v1_matrix_fn(c, t)
    \/ \E c \in ResultCallers : \E t \in QueryTopicIds : results_final_order_fn(c, t)
    \/ \E c \in ResultCallers : get_topic_read_lock(c)
    \/ \E c \in ResultCallers : find_one_returns(c)
    \/ \E c \in ResultCallers : insert_lookup(c)
    \/ \E c \in ResultCallers : insert_store(c)
    \/ \E c \in ResultCallers : results_cache_lookup(c)
    \/ \E c \in ResultCallers : hgetall_op_matrix(c)
    \/ \E c \in ResultCallers : hgetall_op_counter(c)
    \/ \E c \in ResultCallers : results_get_candidate_pool(c)
    \/ \E c \in ResultCallers : get_topic_lookup(c)
    \/ \E c \in ResultCallers : evaluate_pool(c)
    \/ \E c \in ResultCallers : final_order_script(c)
    \/ \E c \in ResultCallers : results_cache_get(c)
    \/ \E c \in ResultCallers : results_cache_insert(c)
    \/ \E t \in QueryTopicIds : \E v \in ResultsTypes : results_cache_expire(t, v)

SpecQuery == InitQuery /\ [][NextQuery]_vars

\* The /results/1v1_matrix requests SpecMatrix follows.
MaxMatrixQueries == 1

\* The ballots of the topic whose matrix is queried.
MatrixInputs == {b \in PairwiseInputs : b.topic = TcId}

\* One request thread in /results/1v1_matrix of the stored topic while the
\* aggregator takes ballots of this topic and flushes them.
NextMatrix ==
    \/ \E b \in MatrixInputs : caller_submits(b)
    \/ recv_ballot
    \/ tick
    \/ flush_attempt
    \/ r_started < MaxMatrixQueries /\ results_1v1_matrix_fn("r1", TcId)
    \/ get_topic_read_lock("r1")
    \/ find_one_returns("r1")
    \/ insert_lookup("r1")
    \/ insert_store("r1")
    \/ results_cache_lookup("r1")
    \/ hgetall_op_matrix("r1")
    \/ hgetall_op_counter("r1")
    \/ results_cache_get("r1")
    \/ results_cache_insert("r1")

SpecMatrix == InitServices /\ [][NextMatrix]_vars

\* /results/final_order on every pool order and every reply of the script.
InitCounts ==
    /\ cfg = [base_multiplier |-> 2, low_multiplier |-> 1, max_ip_limit |-> 1]
    /\ InitProcessor
    /\ InitStores
    /\ InitApi
    /\ InitNats
    /\ InitTopic
    /\ fo_stats = [id \in OperatorIds |-> [win |-> 70, lose |-> 30]]
    /\ fo_pool \in CandidatePools
    /\ fo_values \in { ScriptReply(pairs) : pairs \in [OperatorIds -> ScriptValuePairs] }
    /\ fo_items = <<>>
    /\ results_cache_store = << >>
    /\ rcalls = [c \in ResultCallers |-> IdleResultCall]
    /\ r_ret = NoResultReturn
    /\ r_inserted = {}
    /\ r_started = 0
    /\ InitPool
    /\ InitWeb

NextCounts == results_final_order_parse

SpecCounts == InitCounts /\ [][NextCounts]_vars

\* The candidate pools a Pairwise topic may have: Custom lists of up to
\* MaxPool operators, repeats included.
MaxPool == 3
CreatePools == UNION { [1..n -> Operators] : n \in 0..MaxPool }

\* The /ballot handlers on an open Pairwise topic T1 with any candidate pool.
InitCreate ==
    /\ cfg = [base_multiplier |-> 2, low_multiplier |-> 1, max_ip_limit |-> 1]
    /\ InitProcessor
    /\ InitStores
    /\ \E pool \in CreatePools :
          topic_table =
              [t \in Topics |->
                  IF t = "T1" THEN [topic_type |-> "Pairwise", is_active |-> TRUE,
                                    phase |-> "open", pool |-> pool]
                  ELSE [topic_type |-> "Setwise", is_active |-> TRUE, phase |-> "open",
                        pool |-> CandidatePool]]
    /\ create_response = NoCreateResponse
    /\ creating = {}
    /\ ballot_cache_store = EmptyHash
    /\ issued = 0
    /\ started = 0
    /\ inflight = {}
    /\ response = NoResponse
    /\ passed = [i \in BallotIds |-> 0]
    /\ InitNats
    /\ InitTopic
    /\ InitResults

SpecCreate == InitCreate /\ [][NextSave]_vars

\* The catalogs generate_pool is checked on: the sub-lists of three
\* characters of two rarities, two professions and two sub-professions.
CatalogCharacters ==
    <<[id |-> 1, rarity |-> "Tier6", profession |-> "WARRIOR", sub_profession_id |-> "sword"],
      [id |-> 2, rarity |-> "Tier6", profession |-> "CASTER", sub_profession_id |-> "aoedamage"],
      [id |-> 3, rarity |-> "Tier5", profession |-> "WARRIOR", sub_profession_id |-> "sword"]>>
Catalogs ==
    { SelectSeq(CatalogCharacters, LAMBDA c : c.id \in keep) : keep \in SUBSET {1, 2, 3} }

\* An id no catalog has.
UnknownId == 9
MaxCustomIds == 2
CustomLists == UNION { [1..n -> {1, 2, UnknownId}] : n \in 0..MaxCustomIds }

PresetFilters ==
    { DefaultFilter,
      [DefaultFilter EXCEPT !.rarities = Some(<<"Tier6">>), !.professions = Some(<<"WARRIOR">>)],
      [DefaultFilter EXCEPT !.exclude_ids = Some(<<1>>), !.include_ids = Some(<<1>>)],
      [DefaultFilter EXCEPT !.rarities = Some(<<"Tier5">>), !.include_ids = Some(<<1, 1>>)],
      [DefaultFilter EXCEPT !.min_rarity = "Tier6", !.include_ids = Some(<<UnknownId, 3>>)],
      [DefaultFilter EXCEPT !.max_rarity = "Tier5", !.sub_professions = Some(<<"sword">>)] }

LeafPresets ==
    {All, ByRarity(<<"Tier6">>), ByProfession(<<"WARRIOR">>), BySubProfession(<<"sword">>)}
        \cup { CustomIds(ids) : ids \in CustomLists }
        \cup { Filter(f) : f \in PresetFilters }

InnerPresets ==
    LeafPresets \cup
        { Union(<<ByRarity(<<"Tier6">>), CustomIds(<<3>>)>>),
          Intersection(<<>>),
          Intersection(<<All, ByProfession(<<"WARRIOR">>), CustomIds(<<3, 1>>)>>),
          Difference(All, CustomIds(<<1>>)) }

Presets ==
    InnerPresets
        \cup { Union(<<a, b>>) : a \in InnerPresets, b \in InnerPresets }
        \cup { Intersection(<<a, b>>) : a \in InnerPresets, b \in InnerPresets }
        \cup { Difference(a, b) : a \in InnerPresets, b \in InnerPresets }

\* generate_pool on every preset and catalog.
InitPresets ==
    /\ cfg = [base_multiplier |-> 2, low_multiplier |-> 1, max_ip_limit |-> 1]
    /\ InitProcessor
    /\ InitStores
    /\ InitApi
    /\ InitNats
    /\ InitTopic
    /\ fo_stats = [id \in OperatorIds |-> [win |-> 70, lose |-> 30]]
    /\ fo_pool = [i \in OperatorIds |-> i]
    /\ fo_items = <<>>
    /\ fo_values = <<>>
    /\ results_cache_store = << >>
    /\ rcalls = [c \in ResultCallers |-> IdleResultCall]
    /\ r_ret = NoResultReturn
    /\ r_inserted = {}
    /\ r_started = 0
    /\ gp_preset \in Presets
    /\ gp_infos \in Catalogs
    /\ gp_pool = NoPool
    /\ InitWeb

NextPresets == generate_pool_call

SpecPresets == InitPresets /\ [][NextPresets]_vars

\* The saves published after a skip: Pairwise ballots naming the stored
\* challenge code 1.
SkipSavePayloads == {p \in NatsPayloads : p.kind = "pairwise" /\ p.code = 1}

\* The save_score consumer of nats-service on the KV store of the
\* challenges, with the producers of ark-vote.ballot_skip and
\* ark-vote.save_score.
NextSkipSave ==
    \/ \E p \in SkipPayloads : publish_ballot_skip(p)
    \/ \E p \in SkipSavePayloads : publish_save_score(p)
    \/ process_save_score_step(TRUE, MaxConsumerFaults)

SpecSkipSave == InitServices /\ [][NextSkipSave]_vars

\* The save_score consumer thread is scheduled as long as it has a step to
\* take.
FairSpecSkipSave == SpecSkipSave /\ WF_vars(process_save_score_step(TRUE, MaxConsumerFaults))

\* Three Pairwise ballots of T1 with three different (win, lose) pairs, each
\* naming a stored challenge of its own.
MaxFrameMessages == 3
MaxFrameFaults == 1
FramePayloads ==
    { [kind |-> "pairwise", topic |-> "T1", code |-> 1, ip |-> "ipA", win |-> 1, lose |-> 2],
      [kind |-> "pairwise", topic |-> "T1", code |-> 5, ip |-> "ipA", win |-> 2, lose |-> 1],
      [kind |-> "pairwise", topic |-> "T1", code |-> 6, ip |-> "ipB", win |-> 1, lose |-> 3] }
FrameCodes ==
    (ballot_key("T1", 1) :> <<1, 2>>) @@ (ballot_key("T1", 5) :> <<1, 2>>)
        @@ (ballot_key("T1", 6) :> <<1, 3>>)

\* The save_score consumer of nats-service on batches of up to
\* MaxFrameMessages valid Pairwise ballots of one topic.
InitFrame ==
    /\ cfg = [base_multiplier |-> 2, low_multiplier |-> 1, max_ip_limit |-> 1]
    /\ InitProcessor
    /\ InitStores
    /\ InitApi
    /\ InitNatsWith(FrameCodes)
    /\ InitTopic
    /\ InitResults

NextFrame ==
    \/ \E p \in FramePayloads : publish_save_score_upto(p, MaxFrameMessages)
    \/ process_save_score_step(TRUE, MaxFrameFaults)

SpecFrame == InitFrame /\ [][NextFrame]_vars

\* The capacities C the buffers are built with: small ones, on which the
\* trigger min(C, 150) is reached, and the one batch_processor_task uses.
Capacities == {1, 2, DefaultCapacity}

\* The aggregator with buffers of any of these capacities.
InitBuffers ==
    /\ cfg = [base_multiplier |-> 2, low_multiplier |-> 1, max_ip_limit |-> 1]
    /\ \E capacity \in Capacities : InitProcessorWith(capacity)
    /\ InitStores
    /\ InitApi
    /\ InitNats
    /\ InitTopic
    /\ InitResults

\* The serving cache in any of the states insert can find it in.
InitInsert ==
    /\ cfg = [base_multiplier |-> 2, low_multiplier |-> 1, max_ip_limit |-> 1]
    /\ InitProcessor
    /\ InitStores
    /\ InitApi
    /\ InitNats
    /\ tc_db = <<StoredTopic>>
    /\ tc_cache \in InsertCaches
    /\ up_cache = << >>
    /\ last_full_refresh = 1
    /\ tc_now = 1
    /\ refresh_readers = 0
    /\ refresh_writer = FALSE
    /\ tcalls = [c \in TopicCallers \cup ResultCallers |-> IdleCall]
    /\ tc_ret = NoReturn
    /\ up_pc = "warm"
    /\ up_topics = <<>>
    /\ tc_writes = 0
    /\ InitResults

\* /results/final_order on every pool order and every op_stats content.
InitOrder ==
    /\ cfg = [base_multiplier |-> 2, low_multiplier |-> 1, max_ip_limit |-> 1]
    /\ InitProcessor
    /\ InitStores
    /\ InitApi
    /\ InitNats
    /\ InitTopic
    /\ fo_stats \in [OperatorIds -> OperatorCounts]
    /\ fo_pool \in CandidatePools
    /\ fo_items = <<>>
    /\ fo_values = <<>>
    /\ results_cache_store = << >>
    /\ rcalls = [c \in ResultCallers |-> IdleResultCall]
    /\ r_ret = NoResultReturn
    /\ r_inserted = {}
    /\ r_started = 0
    /\ InitPool
    /\ InitWeb

NextOrder == results_final_order_sort

SpecOrder == InitOrder /\ [][NextOrder]_vars

\* TopicCache::insert called on every cache content.
NextInsert == \E t \in TopicVersions : cache_insert(t)

SpecInsert == InitInsert /\ [][NextInsert]_vars

\* The challenges of SpecRequests: ballot 1 under the key of
\* process_single_ballot and under the key of /ballot/new, ballot 2
\* malformed.
RequestCodes ==
    (legacy_ballot_key(1) :> <<1, 2>>) @@ (legacy_ballot_key(2) :> <<1>>)
        @@ (ballot_key("T1", 1) :> <<1, 2>>)

\* The save published while requests are consumed: a valid Pairwise ballot
\* naming ballot 1.
RequestSavePayloads == {p \in NatsPayloads : p.kind = "pairwise" /\ p.code = 1 /\ p.lose = 2}

InitRequests ==
    /\ cfg = [base_multiplier |-> 2, low_multiplier |-> 1, max_ip_limit |-> 1]
    /\ InitProcessor
    /\ InitStores
    /\ InitApi
    /\ InitNatsWith(RequestCodes)
    /\ InitTopic
    /\ InitResults

\* The new_compare_request consumer of nats-service with the producers of
\* its subject, and the save_score consumer, whose fallback path reads the
\* keys it deletes.
NextRequests ==
    \/ \E p \in RequestPayloads : publish_new_compare_request(p)
    \/ process_new_compare_requests
    \/ new_compare_request_redeliver
    \/ \E p \in RequestSavePayloads : publish_save_score(p)
    \/ process_save_score_step(TRUE, MaxConsumerFaults)

SpecRequests == InitRequests /\ [][NextRequests]_vars

\* The payloads of the retry ladder: a Pairwise ballot naming the stored
\* challenge code 1 and a Setwise ballot.
LadderPayloads == {p \in NatsPayloads : p.kind = "setwise" \/ (p.code = 1 /\ p.lose = 2)}

\* The save_score consumer and the DLQ consumer of nats-service with their
\* producers, the wall clock and stores whose calls may fail at any time.
NextLadder ==
    \/ \E p \in LadderPayloads : publish_save_score(p)
    \/ process_save_score_messages(FALSE)
    \/ redeliver
    \/ nats_clock_tick
    \/ process_dead_letter_queue

SpecLadder == InitServices /\ [][NextLadder]_vars

\* The DLQ consumer thread is scheduled as long as it is running.
FairSpecLadder ==
    /\ SpecLadder
    /\ WF_vars(process_dead_letter_queue)

\* The aggregator fed with Pairwise ballots.
Next ==
    \/ \E b \in PairwiseInputs : caller_submits(b)
    \/ recv_ballot
    \/ tick
    \/ flush_attempt

Spec == Init /\ [][Next]_vars

\* The aggregator fed with ballots of every variant submit_ballot accepts.
NextAll ==
    \/ \E b \in PairwiseInputs : caller_submits(b)
    \/ \E b \in OtherInputs : caller_submits(b)
    \/ recv_ballot
    \/ tick
    \/ flush_attempt

SpecAll == Init /\ [][NextAll]_vars

\* The aggregator until its handles are dropped and the worker has left its
\* loop.
NextShutdown ==
    \/ NextAll
    \/ close_channel
    \/ recv_none

SpecShutdown == InitServices /\ [][NextShutdown]_vars

\* The aggregator with buffers of small capacities, fed with every variant.
SpecBuffers == InitBuffers /\ [][NextAll]_vars

\* Pairwise ballots naming ballot_id 1 under T1 and under T2, and ballot_id 5
\* under T2; only T2 has stored challenges for them.
ValidatePayloads ==
    { [kind |-> "pairwise", topic |-> "T1", code |-> 1, ip |-> "ipA", win |-> 1, lose |-> 2],
      [kind |-> "pairwise", topic |-> "T2", code |-> 1, ip |-> "ipA", win |-> 2, lose |-> 1],
      [kind |-> "pairwise", topic |-> "T2", code |-> 5, ip |-> "ipB", win |-> 1, lose |-> 2] }
ValidateCodes ==
    (ballot_key("T2", 1) :> <<1, 2>>) @@ (ballot_key("T2", 5) :> <<1, 2>>)

\* The failed calls in the batches of SpecValidate: none, the replies of the
\* GETDEL script are what these batches are about.
MaxValidateFaults == 0

\* The save_score consumer of nats-service on batches of ballots sharing a
\* ballot_id.
InitValidate ==
    /\ cfg = [base_multiplier |-> 2, low_multiplier |-> 1, max_ip_limit |-> 1]
    /\ InitProcessor
    /\ InitStores
    /\ InitApi
    /\ InitNatsWith(ValidateCodes)
    /\ InitTopic
    /\ InitResults

NextValidate ==
    \/ \E p \in ValidatePayloads : publish_save_score_upto(p, MaxFrameMessages)
    \/ process_save_score_step(TRUE, MaxValidateFaults)

SpecValidate == InitValidate /\ [][NextValidate]_vars

\* The topic as a service start may find it stored: never updated, or
\* updated before the start.
RaceTopics == {StoredTopic, [StoredTopic EXCEPT !.updated_at = 1]}

InitRace ==
    /\ cfg = [base_multiplier |-> 2, low_multiplier |-> 1, max_ip_limit |-> 1]
    /\ InitProcessor
    /\ InitStores
    /\ InitApi
    /\ InitNats
    /\ \E t \in RaceTopics : tc_db = <<t>>
    /\ tc_cache = << >>
    /\ up_cache = << >>
    /\ last_full_refresh = 1
    /\ tc_now = 1
    /\ refresh_readers = 0
    /\ refresh_writer = FALSE
    /\ tcalls = [c \in TopicCallers \cup ResultCallers |-> IdleCall]
    /\ tc_ret = NoReturn
    /\ up_pc = "warm"
    /\ up_topics = <<>>
    /\ tc_writes = 0
    /\ InitResults

\* The request threads of TopicService in get_topic and audit_topic, with
\* the steps of insert interleaved.
NextRace ==
    \/ topic_clock_tick
    \/ \E c \in TopicCallers : get_topic(c)
    \/ \E c \in TopicCallers : \E a \in AuditCategories : audit_topic(c, a)
    \/ \E c \in TopicCallers : audit_topic_update_one(c)
    \/ \E c \in TopicCallers : get_topic_lookup(c)
    \/ \E c \in TopicCallers : get_topic_read_lock(c)
    \/ \E c \in TopicCallers : find_one_returns(c)
    \/ \E c \in TopicCallers : insert_lookup(c)
    \/ \E c \in TopicCallers : insert_store(c)

SpecRace == InitRace /\ [][NextRace]_vars

\* One Snowflake generator and its callers.
NextSnowflake == next_id

InitSnowflakeConfigs ==
    /\ InitBackend
    /\ InitSnowflakeWith(SnowflakeConfigs)
    /\ InitWorkerId
    /\ InitTasks

SpecSnowflake == InitSnowflakeConfigs /\ [][NextSnowflake]_vars

\* Two web-service processes started against one Redis.
SpecWorkerId == InitServices /\ [][NextWorkerId]_vars

\* A TaskManager of every configured concurrency and the callers of spawn.
InitConcurrencies ==
    /\ InitBackend
    /\ InitSnowflake
    /\ InitWorkerId
    /\ InitTasksWith(1..MaxConcurrency)

SpecTasks == InitConcurrencies /\ [][NextTasks]_vars

\* ------------------------------------------------------ ghost definitions
\* The stored ballots of topic t, and the ballots among them (by seq).
ArchivedSeqs(t) == {archive[t][i].ballot.seq : i \in DOMAIN archive[t]}
AllArchivedSeqs == UNION {ArchivedSeqs(t) : t \in Topics}
LoggedSeqs == {failedLog[i].seq : i \in DOMAIN failedLog}

\* Ballots waiting in the channel, in the buffers or in the running flush.
PendingBallots ==
    SeqRange(channel) \cup SeqRange(groups.pairwise) \cup SeqRange(groups.setwise)
    \cup SeqRange(groups.groupwise) \cup SeqRange(groups.plurality)
    \cup SeqRange(batch.pairwise) \cup SeqRange(batch.setwise)
    \cup SeqRange(batch.groupwise) \cup SeqRange(batch.plurality)
PendingSeqs == {b.seq : b \in PendingBallots}

\* The archived ballots of topic t scoring the unordered pair {a, b}.
ArchivedPairSeqs(t, a, b) ==
    {archive[t][i].ballot.seq :
        i \in {j \in DOMAIN archive[t] :
                  {archive[t][j].ballot.win, archive[t][j].ballot.lose} = {a, b}}}

\* The stored ballots of topic t and address ip, in insertion order.
RECURSIVE StoredOfIp(_, _)
StoredOfIp(stored, ip) ==
    IF stored = <<>> THEN <<>>
    ELSE IF Head(stored).ballot.ip = ip
         THEN <<Head(stored)>> \o StoredOfIp(Tail(stored), ip)
         ELSE StoredOfIp(Tail(stored), ip)

Idle == attempt = 0

\* ------------------------------------------------------------------ claims

\* C1: after any sequence of Pairwise flushes, failed attempts and retries,
\* op_matrix[T][a:b] + op_matrix[T][b:a] = 0 for every topic and pair.
C1_Antisymmetry ==
    \A t \in Topics : \A a \in Operators : \A b \in Operators :
        HGet(op_matrix[t], <<a, b>>) + HGet(op_matrix[t], <<b, a>>) = 0

\* C1 witness: a retried flush has scored a pair more than once.
C1_Witness ==
    /\ faults > 0
    /\ stats.successful_batches > 0
    /\ \E t \in Topics : HGet(op_matrix[t], <<1, 2>>) > 2

\* C2: whenever no flush is running, valid_ballots_count[T] is the number of
\* Pairwise ballots of T the aggregator has processed (flushed and
\* archived), one increment per ballot whatever attempts failed.
C2_OneIncrementPerBallot ==
    Idle => \A t \in Topics :
        valid_ballots_count[t] = Cardinality(ArchivedSeqs(t))

\* C3: with max_ip_limit = K >= 0, in a run where no call fails, the i-th
\* processed ballot of one IP on one topic contributes base_multiplier when
\* i <= K and low_multiplier otherwise, however the ballots are batched.
C3_FirstKBase ==
    (faults = 0 /\ cfg.max_ip_limit >= 0) =>
        \A t \in Topics : \A ip \in IPs :
            LET mine == StoredOfIp(archive[t], ip)
            IN  \A i \in DOMAIN mine :
                    mine[i].multiplier =
                        IF i <= cfg.max_ip_limit THEN cfg.base_multiplier
                        ELSE cfg.low_multiplier

\* C6: whenever no flush is running, op_counter[T][min:max] is the number of
\* processed Pairwise ballots of T whose {win, lose} is that pair.
C6_EncounterCount ==
    Idle => \A t \in Topics : \A a \in Operators : \A b \in Operators :
        a < b => HGet(op_counter[t], <<a, b>>) = Cardinality(ArchivedPairSeqs(t, a, b))

\* C7 as stated: op_stats fields are >= 0 in every reachable state, for every
\* multiplier value the configuration accepts.
C7_StatsNonNegative ==
    \A t \in Topics : \A f \in DOMAIN op_stats[t] : op_stats[t][f] >= 0

NonNegativeMultipliers == cfg.base_multiplier >= 0 /\ cfg.low_multiplier >= 0

C7_StartAtZero ==
    /\ \A t \in Topics : \A o \in Operators :
          /\ HGet(op_stats[t], <<o, "win">>) = 0
          /\ HGet(op_stats[t], <<o, "lose">>) = 0
    /\ \A t \in Topics : \A a \in Operators : \A b \in Operators :
          HGet(op_counter[t], <<a, b>>) = 0
    /\ \A t \in Topics : valid_ballots_count[t] = 0

C7_MonotoneStep ==
    /\ \A t \in Topics : valid_ballots_count'[t] >= valid_ballots_count[t]
    /\ \A t \in Topics : \A a \in Operators : \A b \in Operators :
          HGet(op_counter'[t], <<a, b>>) >= HGet(op_counter[t], <<a, b>>)
    /\ NonNegativeMultipliers =>
          \A t \in Topics : \A o \in Operators : \A k \in {"win", "lose"} :
              /\ HGet(op_stats'[t], <<o, k>>) >= HGet(op_stats[t], <<o, k>>)
              /\ HGet(op_stats'[t], <<o, k>>) >= 0

\* C7 amended: op_counter fields and valid_ballots_count start at 0 and never
\* decrease; op_stats fields start at 0 and, for base_multiplier >= 0 and
\* low_multiplier >= 0, never decrease and stay >= 0.
C7_MonotoneForNonNegative == C7_StartAtZero /\ [][C7_MonotoneStep]_vars

\* C7 witness: with non-negative multipliers a retried flush raised a field.
C7_Witness ==
    /\ NonNegativeMultipliers
    /\ faults > 0
    /\ \E t \in Topics : HGet(op_stats[t], <<1, "win">>) > 2

\* C8: no ballot accepted by submit_ballot is discarded: it is
\* waiting, or applied and archived, or in the fallback log.
C8_NoBallotDiscarded ==
    \A n \in 1..nextSeq :
        n \in PendingSeqs \cup AllArchivedSeqs \cup LoggedSeqs

\* C9: a flush makes at most 3 attempts; a failed attempt before the third
\* only moves to the next attempt; when the third fails the whole batch is
\* appended to the fallback log, failed_batches grows by exactly 1, the
\* batch is in no buffer and the worker is back in its loop, ready for the
\* ballots submitted afterwards.
C9_AttemptStep ==
    /\ attempt \in 0..3
    /\ attempt' \in 0..3
    /\ (faults' # faults /\ attempt < 3) =>
          /\ attempt' = attempt + 1
          /\ batch' = batch
          /\ failedLog' = failedLog
          /\ stats' = stats
    /\ (faults' # faults /\ attempt = 3) =>
          /\ failedLog' = failedLog \o batch.pairwise \o batch.setwise
                              \o batch.groupwise \o batch.plurality
          /\ stats'.failed_batches = stats.failed_batches + 1
          /\ stats'.successful_batches = stats.successful_batches
          /\ attempt' = 0
          /\ batch' = EmptyBatch
          /\ worker' = worker
          /\ \A b \in SeqRange(failedLog') :
                b \notin SeqRange(groups'.pairwise) \cup SeqRange(groups'.setwise)
                         \cup SeqRange(groups'.groupwise) \cup SeqRange(groups'.plurality)
    /\ stats'.failed_batches # stats.failed_batches =>
          (faults' # faults /\ attempt = 3)

C9_ThreeAttemptsThenLog == [][C9_AttemptStep]_vars

\* The saves that do their challenge lookup in the step.
AtLookup == {s \in inflight \ inflight' : s.pc = "remove"}

\* The saves that check their pair and are answered in the step.
AtSubmit == {s \in inflight \ inflight' : s.pc = "submit"}

C4_Step ==
    /\ \A i \in BallotIds : passed'[i] <= 1
    /\ \A i \in BallotIds : \A t \in TopicIds :
          i > issued => ballot_key(t, i) \notin DOMAIN ballot_cache_store
    /\ \A s \in AtLookup :
          LET key == ballot_key(s.req.topic_id, s.req.ballot_id)
          IN  IF key \in DOMAIN ballot_cache_store
              THEN /\ key \notin DOMAIN ballot_cache_store'
                   /\ passed'[s.req.ballot_id] = passed[s.req.ballot_id] + 1
              ELSE /\ response' = [n |-> s.n, message |-> "BallotNotFound"]
                   /\ passed' = passed
                   /\ channel' = channel
    /\ \A s \in inflight' :
          s.pc = "submit" =>
              \/ s \in inflight
              \/ \E s0 \in AtLookup :
                    /\ s0.n = s.n
                    /\ ballot_key(s0.req.topic_id, s0.req.ballot_id) \in DOMAIN ballot_cache_store

\* C4: for every ballot id at most one /ballot/save, sequential or
\* concurrent, gets past the challenge lookup, which deletes the challenge;
\* every other save reaching the lookup, and every save reaching it with an
\* id that was never created, is answered BallotNotFound and submits
\* nothing.
C4_ConsumedOnce == [][C4_Step]_vars

\* C4 witness: two saves named the same challenge concurrently; the second
\* to arrive consumed it while the first is still to do its lookup.
C4_Witness ==
    /\ passed[1] = 1
    /\ response = [n |-> 2, message |-> "OK"]
    /\ \E s \in inflight : s.n = 1 /\ s.req.ballot_id = 1 /\ s.pc = "remove"

C5_Step ==
    /\ \A s \in inflight' :
          s.pc = "submit" =>
              \/ s \in inflight
              \/ \E s0 \in AtLookup :
                    LET key == ballot_key(s0.req.topic_id, s0.req.ballot_id)
                    IN  /\ s0.n = s.n /\ s0.req = s.req
                        /\ key \in DOMAIN ballot_cache_store
                        /\ s.store_value = ballot_cache_store[key]
    /\ channel' # channel =>
          \E s \in AtSubmit :
              LET req == s.req
              IN  /\ req.topic_id \in DOMAIN topic_table
                  /\ topic_table[req.topic_id].topic_type = "Pairwise"
                  /\ topic_table[req.topic_id].is_active
                  /\ topic_table[req.topic_id].phase # "before"
                  /\ req.topic_type = "Pairwise"
                  /\ req.winner # req.loser
                  /\ {req.winner, req.loser} \subseteq {s.store_value[1], s.store_value[2]}
                  /\ Len(channel') = Len(channel) + 1
                  /\ SubSeq(channel', 1, Len(channel)) = channel
                  /\ channel'[Len(channel')].variant = "pairwise"
                  /\ channel'[Len(channel')].topic = req.topic_id
                  /\ channel'[Len(channel')].win = req.winner
                  /\ channel'[Len(channel')].lose = req.loser
                  /\ response' = [n |-> s.n, message |-> "OK"]
    /\ (response' # response /\ response'.message # "OK") =>
          /\ channel' = channel
          /\ UNCHANGED <<groups, batch, kvVars, archive>>

\* C5: a save submits a Pairwise ballot only if its topic is Pairwise and
\* was Active at the topic check, the challenge of (topic_id, ballot_id)
\* was in the store at its lookup, winner # loser and {winner, loser} is a
\* subset of the {left, right} of that challenge; the ballot carries that
\* winner and loser.  A rejected save submits nothing and changes no
\* aggregate.
C5_SubmitOnlyValid == [][C5_Step]_vars

\* C5 witness: a valid save has submitted its ballot.
C5_Witness ==
    /\ Len(channel) = 1
    /\ response.message = "OK"
    /\ passed[1] = 1

\* The error is one the DLQ pipeline is invoked on.
Recoverable(e) == e \notin {"none", "decode"} /\ is_need_send_to_dlq(e)

\* C11: a message whose processing fails with a recoverable error, and
\* whose republish or dead-letter publish does not itself fail, is
\* republished with X-Retry-Count + 1 and the first-error timestamp it
\* carried (the current time on the first failure) while its retry count
\* is below 5, and at retry count 5 it yields exactly one DeadLetterMessage
\* with retry_count = 5 and first_error_timestamp <= last_error_timestamp
\* and is not republished; no republished message carries a retry count
\* above 5.
C11_Step ==
    /\ \A r \in results' \ results :
          (Recoverable(r.error) /\ r.fate # "publish_failed") =>
             r.fate = IF r.retry_count < DLQ_MAX_RETRIES THEN "republished" ELSE "dead_lettered"
    /\ (consumer.fate = "none" /\ consumer'.fate = "republished") =>
          /\ consumer.cur.retry_count < DLQ_MAX_RETRIES
          /\ dlq' = dlq
          /\ \E first_ts \in 0..n_now :
                /\ stream' = Append(stream, [payload |-> consumer.cur.payload,
                                             retry_count |-> consumer.cur.retry_count + 1,
                                             first_ts |-> first_ts])
                /\ consumer.cur.first_ts # NoHeader => first_ts = consumer.cur.first_ts
                /\ consumer.cur.first_ts = NoHeader => first_ts > NoHeader
    /\ (consumer.fate = "none" /\ consumer'.fate = "dead_lettered") =>
          /\ stream' = stream
          /\ \E d \in SeqRange(dlq') :
                /\ dlq' = Append(dlq, d)
                /\ d.original_payload = consumer.cur.payload
                /\ d.retry_count = DLQ_MAX_RETRIES
                /\ d.first_error_timestamp <= d.last_error_timestamp
    /\ \A i \in DOMAIN stream' : stream'[i].retry_count <= DLQ_MAX_RETRIES

C11_RetryLadder == [][C11_Step]_vars

\* C12: every dead letter published to ark-vote.dlq is eventually acked
\* and present exactly once in the dead_letter_queue collection.
C12_DeadLettersArchived ==
    \A i \in 1..MaxMessages :
        (Len(dlq) >= i) ~>
            /\ i \in dlq_acked
            /\ Cardinality({k \in DOMAIN dead_letter_queue : dead_letter_queue[k].seq = i}) = 1

\* C13: every message the save_score consumer has handled without an
\* error, and every message that failed to decode, is double_acked (the
\* ack itself may fail): none is dropped without an ack for the stream to
\* redeliver.
C13_HandledMessagesAcked ==
    \A r \in results : r.error \in {"none", "decode"} => r.fate \in {"acked", "ack_failed"}

\* C14: a failure of a fetch or of a KV call never ends the
\* new_compare_request consumer: it keeps running and consumes what is
\* published afterwards.
C14_ConsumerSurvivesFailure == ncr_consumer.pc # "ended"

\* C15: a Setwise, Groupwise or Plurality ballot leaves the channel, the
\* buffers and the running flush of the aggregator only with a record in
\* the ballot archive, and a flush without Pairwise ballots changes no
\* aggregate.
C15_Step ==
    /\ \A b \in PendingBallots :
          (b.variant # "pairwise" /\ b \notin PendingBallots') => b.seq \in AllArchivedSeqs'
    /\ batch.pairwise = <<>> => kvVars' = kvVars

C15_OtherVariantsArchived == [][C15_Step]_vars

\* C10: in every consumer iteration a message whose processing failed with
\* InvalidParticipants, InvalidBallotCode or InvalidBallotFormat is acked
\* without being republished or dead-lettered.
C10_InputErrorsNeverRetried ==
    \A r \in results : r.error \in InputErrors => r.fate \in {"acked", "ack_failed"}

\* The replacement condition of the upsert policy.
ReplacePolicy(cached, new) ==
    \/ cached.updated_at = NoTime /\ new.updated_at # NoTime
    \/ cached.updated_at # NoTime /\ new.updated_at # NoTime
          /\ cached.updated_at < new.updated_at
    \/ cached.updated_at = NoTime /\ new.updated_at = NoTime
          /\ (cached.description # new.description \/ cached.name # new.name
                \/ cached.is_active # new.is_active)

C16_Step ==
    \A t \in TopicVersions :
        cache_insert(t) =>
            LET writes == TcId \notin DOMAIN tc_cache \/ ReplacePolicy(tc_cache[TcId].data, t)
            IN  /\ tc_ret'.ok <=> writes
                /\ writes => tc_cache' = (TcId :> CacheEntryNew(t))
                /\ ~writes => tc_cache' = tc_cache

\* C16: TopicCache.insert replaces a cached entry exactly when the cached
\* updated_at is None and the new one is Some, or both are Some and the
\* cached one is earlier, or both are None and description, name or
\* is_active differ; with no entry it always inserts; it returns true
\* exactly when it wrote.
C16_InsertPolicy == [][C16_Step]_vars

\* An insert with the timestamp of the cached version and another name was
\* refused and left the entry and its memoized pool in place.
C16_Witness ==
    /\ tc_ret.op = "insert"
    /\ ~tc_ret.ok
    /\ TcId \in DOMAIN tc_cache
    /\ tc_cache[TcId].data.updated_at # NoTime
    /\ tc_cache[TcId].data.updated_at = tc_ret.topic.updated_at
    /\ tc_cache[TcId].data.name # tc_ret.topic.name
    /\ tc_cache[TcId].pool # <<>>

C17_Step ==
    \A c \in TopicCallers :
        (/\ tcalls[c].op = "audit_topic"
         /\ tcalls'[c].pc = "idle"
         /\ tcalls[c].was_cached
         /\ tc_writes = 1
         /\ tc_ret'.caller = c /\ tc_ret'.op = "audit_topic" /\ tc_ret'.ok)
        => /\ tc_db'[FirstWithId(tc_db', TcId)].status = AuditStatus(tcalls[c].category)
           /\ tc_cache'[TcId].data.status = AuditStatus(tcalls[c].category)
           /\ tc_cache'[TcId].data.updated_at = tcalls[c].stamp

\* C17: when audit_topic returns Ok for a topic that was cached, and no
\* other write to the stored topic happened, the stored topic has status
\* Approved(info) for ContentCompliance and Rejected(info) otherwise, and
\* the cache holds the topic with the new status and the new updated_at.
C17_AuditRefreshesCache == [][C17_Step]_vars

\* The positions of the updater in full_cache_update, and those of a
\* request thread in the miss fetch of get_topic.
FullReload == {"full", "full_insert"}
MissFetch == {"fetch", "check1", "write1"}

\* C18: a full reload of the topic cache never runs while a single-topic
\* miss fetch runs: a running full reload of the updater holds
\* refresh_lock exclusively, a running miss fetch holds it shared.
C18_ReloadExcludesMissFetch ==
    /\ up_pc \in FullReload => refresh_writer
    /\ \A c \in TopicCallers : tcalls[c].pc \in MissFetch => refresh_readers > 0
    /\ \A c \in TopicCallers : ~(up_pc \in FullReload /\ tcalls[c].pc \in MissFetch)

\* C19: the pool memoized on a cache entry is empty or the evaluation of
\* the candidate_pool of the topic version the same entry holds, and a
\* get_candidate_pool whose evaluation is empty returns None and memoizes
\* nothing.
C19_PoolMatchesEntry ==
    /\ \A k \in DOMAIN tc_cache :
          \/ tc_cache[k].pool = <<>>
          \/ tc_cache[k].pool = generate_pool(tc_cache[k].data.candidate_pool, CharacterInfos)
    /\ (tc_ret.op = "get_candidate_pool" /\ tc_ret.ok /\ tc_ret.found) => tc_ret.pool # <<>>

\* a comes before b in the order of the claim: rate descending, then
\* score descending, then win descending, then id ascending.
Precedes(a, b) ==
    LET ta == a.win + a.lose
        tb == b.win + b.lose
        \* the two rates over the common denominator
        ra == IF ta > 0 THEN a.win * 100 * (IF tb > 0 THEN tb ELSE 1) ELSE 0
        rb == IF tb > 0 THEN b.win * 100 * (IF ta > 0 THEN ta ELSE 1) ELSE 0
    IN  \/ ra > rb
        \/ ra = rb /\ a.win - a.lose > b.win - b.lose
        \/ ra = rb /\ a.win - a.lose = b.win - b.lose /\ a.win > b.win
        \/ ra = rb /\ a.win - a.lose = b.win - b.lose /\ a.win = b.win /\ a.id < b.id

\* C20: final_order returns the operators of the pool ordered by rate
\* descending, then score descending, then win descending, then id
\* ascending, and returns the same items for every order of the pool.
C20_FinalOrderTotal ==
    fo_items # <<>> =>
        /\ Len(fo_items) = Len(fo_pool)
        /\ \A id \in OperatorIds : \E i \in DOMAIN fo_items :
              /\ fo_items[i].id = id
              /\ fo_items[i].win = fo_stats[id].win
              /\ fo_items[i].lose = fo_stats[id].lose
        /\ \A i, j \in DOMAIN fo_items : i < j => Precedes(fo_items[i], fo_items[j])
        /\ \A q \in CandidatePools : final_order(q, fo_stats) = fo_items

\* The pool was given as 3, 1, 2 (the rest after it), operators 1 and 2
\* have 70 wins and 30 losses and operator 3 has none, and the response
\* lists 1, 2, 3.
C20_Witness ==
    /\ fo_items # <<>>
    /\ fo_pool[1] = 3 /\ fo_pool[2] = 1 /\ fo_pool[3] = 2
    /\ fo_stats[1] = [win |-> 70, lose |-> 30]
    /\ fo_stats[2] = [win |-> 70, lose |-> 30]
    /\ fo_stats[3] = [win |-> 0, lose |-> 0]
    /\ fo_items[1].id = 1 /\ fo_items[2].id = 2 /\ fo_items[3].id = 3

\* C21: for every field a:b of the op_matrix read, the 1v1_matrix response
\* has score = op_matrix[a:b] and count = op_counter[min(a,b):max(a,b)], 0
\* when that field is absent, so a:b and b:a carry the same count.
C21_MatrixCounts ==
    \A c \in ResultCallers :
        (rcalls[c].pc \in {"get", "insert"} /\ rcalls[c].variant = "Matrix1v1") =>
            LET rsp == rcalls[c].rsp.matrix
                data == rcalls[c].data
                counter == rcalls[c].counter_data
            IN  /\ DOMAIN rsp = DOMAIN data
                /\ \A f \in DOMAIN data :
                      /\ rsp[f].score = data[f]
                      /\ rsp[f].count =
                            IF <<Min(f[1], f[2]), Max(f[1], f[2])>> \in DOMAIN counter
                            THEN counter[<<Min(f[1], f[2]), Max(f[1], f[2])>>]
                            ELSE 0
                      /\ <<f[2], f[1]>> \in DOMAIN rsp => rsp[<<f[2], f[1]>>].count = rsp[f].count

\* A flush wrote between the two HGETALL of a request: the response was
\* built from the op_matrix read after one ballot, in which 2:1 has the
\* score -2, and from the op_counter read after a second ballot, and both
\* 1:2 and 2:1 carry the two encounters recorded under 1:2.
C21_Witness ==
    \E c \in ResultCallers :
        /\ rcalls[c].pc = "get"
        /\ rcalls[c].variant = "Matrix1v1"
        /\ <<2, 1>> \in DOMAIN rcalls[c].rsp.matrix
        /\ rcalls[c].rsp.matrix[<<2, 1>>].score = -2
        /\ rcalls[c].rsp.matrix[<<2, 1>>].count = 2
        /\ rcalls[c].rsp.matrix[<<1, 2>>].count = 2
        /\ rcalls[c].counter_data[<<1, 2>>] = 2
        /\ <<2, 1>> \notin DOMAIN rcalls[c].counter_data
        /\ rcalls[c].data # op_matrix[TcId]

\* C22: a successful response was computed for the topic and the variant
\* requested; every cache entry holds, under its own variant, a complete
\* response computed for its key and nothing of another key; and when no
\* request is running every key inserted and not expired since holds the
\* response of one of the computations for that key.
C22_CacheSnapshots ==
    /\ r_ret.status = 0 =>
          /\ r_ret.of_topic = r_ret.topic
          /\ r_ret.of_variant = r_ret.variant
          /\ r_ret.by \in ResultCallers
    /\ \A k \in DOMAIN results_cache_store : \A v \in ResultsTypes :
          LET held == FieldOf(results_cache_store[k], v)
          IN  IF v = k[2]
              THEN held.topic = k[1] /\ held.variant = v /\ held.by \in ResultCallers
              ELSE held = NoResult
    /\ (\A c \in ResultCallers : rcalls[c].pc = "idle") =>
          \A k \in r_inserted :
              /\ <<k[1], k[2]>> \in DOMAIN results_cache_store
              /\ FieldOf(results_cache_store[<<k[1], k[2]>>], k[2]).topic = k[1]
              /\ FieldOf(results_cache_store[<<k[1], k[2]>>], k[2]).variant = k[2]

\* r1 is about to insert its final order of T1 while the cache already
\* holds the final order r2 computed for T1 and a matrix of T1.
C22_Witness ==
    /\ rcalls["r1"].pc = "insert"
    /\ rcalls["r1"].topic = "T1"
    /\ rcalls["r1"].variant = "FinalOrder"
    /\ <<"T1", "FinalOrder">> \in DOMAIN results_cache_store
    /\ results_cache_store[<<"T1", "FinalOrder">>].final_order.by = "r2"
    /\ <<"T1", "Matrix1v1">> \in DOMAIN results_cache_store

\* C30: for a pool of n operators the item of the operator at index i has
\* its win from script value i and its lose from value n+i, a null or
\* unparsable value counting as 0, rate = win*100/(win+lose) when win+lose
\* > 0 and 0 otherwise, and score = (win - lose)/100.
C30_CountsByIndex ==
    (fo_items # <<>> /\ fo_values # <<>>) =>
        LET n == Len(fo_pool)
        IN  /\ Len(fo_items) = n
            /\ \A i \in 1..n :
                  \E k \in DOMAIN fo_items :
                      LET item == fo_items[k]
                          win == fo_values[i].means
                          lose == fo_values[n + i].means
                      IN  /\ item.id = fo_pool[i]
                          /\ item.win = win
                          /\ item.lose = lose
                          /\ IF win + lose > 0
                             THEN item.rate.num * (win + lose) = win * 100 * item.rate.den
                             ELSE item.rate.num = 0
                          /\ item.rate.den > 0
                          /\ item.score = win - lose

\* The pool starts with operator 2, whose win value is unparsable and whose
\* lose value is "7": its item has win 0, lose 7 and rate 0, while another
\* operator of the pool has 70 wins and 30 losses.
C30_Witness ==
    /\ fo_items # <<>>
    /\ fo_values # <<>>
    /\ fo_pool[1] = 2
    /\ fo_values[1].text = Some(<<"x">>)
    /\ \E k \in DOMAIN fo_items :
          /\ fo_items[k].id = 2 /\ fo_items[k].win = 0 /\ fo_items[k].lose = 7
          /\ fo_items[k].rate.num = 0
    /\ \E k \in DOMAIN fo_items : fo_items[k].win = 70 /\ fo_items[k].lose = 30

C23_Step ==
    \A c \in creating :
        /\ (ballot_create_get_candidate_pool(c) /\ c.topic_type = "Pairwise")
           => IF Len(topic_table[c.topic].pool) >= 2
              THEN \E d \in creating' :
                      /\ d.pc = "insert"
                      /\ d.pair[1] # d.pair[2]
                      /\ \E i, j \in DOMAIN topic_table[c.topic].pool :
                            /\ topic_table[c.topic].pool[i] = d.pair[1]
                            /\ topic_table[c.topic].pool[j] = d.pair[2]
              ELSE /\ create_response'.message = "InsufficientOperators"
                   /\ ballot_cache_store' = ballot_cache_store
        /\ ballot_create_insert(c)
           => /\ create_response'.message = "OK"
              /\ create_response'.left = c.pair[1]
              /\ create_response'.right = c.pair[2]

\* C23: on an Active Pairwise topic, /ballot/new with a candidate pool of at
\* least 2 entries returns left # right, both from the pool; with a pool of
\* fewer than 2 entries it fails with InsufficientOperators and stores no
\* challenge.
C23_DistinctOperators == [][C23_Step]_vars

\* The ids of the lists generate_pool can return for a preset.
PoolIds(preset, character_infos) ==
    UNION { SeqRange(pool) : pool \in preset_generate_pool(preset, character_infos) }

\* C24: as sets of ids, generate_pool(Union([A,B])) is the union,
\* generate_pool(Intersection([A,B])) the intersection and
\* generate_pool(Difference(A,B)) the difference of generate_pool(A) and
\* generate_pool(B), and generate_pool(Intersection([])) is empty.
C24_SetAlgebra ==
    gp_pool.returned =>
        LET ids == SeqRange(gp_pool.pool)
            A == gp_preset.presets[1]
            B == gp_preset.presets[2]
        IN  /\ (gp_preset.kind = "Union" /\ Len(gp_preset.presets) = 2)
                => ids = PoolIds(A, gp_infos) \cup PoolIds(B, gp_infos)
            /\ (gp_preset.kind = "Intersection" /\ Len(gp_preset.presets) = 2)
                => ids = PoolIds(A, gp_infos) \cap PoolIds(B, gp_infos)
            /\ gp_preset.kind = "Difference"
                => ids = PoolIds(A, gp_infos) \ PoolIds(B, gp_infos)
            /\ (gp_preset.kind = "Intersection" /\ gp_preset.presets = <<>>)
                => gp_pool.pool = <<>>

C24_Witness ==
    /\ gp_preset = Intersection(<<Filter([DefaultFilter EXCEPT !.exclude_ids = Some(<<1>>),
                                                               !.include_ids = Some(<<1>>)]),
                                  Difference(All, CustomIds(<<1>>))>>)
    /\ Len(gp_infos) = 3
    /\ gp_pool = [returned |-> TRUE, pool |-> <<3, 2>>]

\* C25: generate_pool returns a list without duplicate ids, every element
\* of which is the id of a catalog character.
C25_NoDuplicates ==
    gp_pool.returned =>
        /\ \A i, j \in DOMAIN gp_pool.pool : gp_pool.pool[i] = gp_pool.pool[j] => i = j
        /\ \A i \in DOMAIN gp_pool.pool :
              \E k \in DOMAIN gp_infos : gp_infos[k].id = gp_pool.pool[i]

\* C26: a skip for (topic_id, ballot_id) that has been accepted, that is
\* published on ark-vote.ballot_skip, is eventually handled: the request has
\* been taken off the subject and the challenge
\* {topic_id}:ballot:{ballot_id} no longer exists, so that a save naming that
\* ballot_id finds no challenge from then on.  (The challenge is stored for
\* 24 hours; the behaviours stay within that time.)
C26_SkippedBallotRejected ==
    \A p \in SkipPayloads :
        (p.kind = "skip" /\ p \in SeqRange(skip_stream))
            ~> (/\ p \notin SeqRange(skip_stream)
                /\ ballot_key(p.topic_id, p.ballot_id) \notin DOMAIN n_codes)

\* portable-service: the keys of every topic other than T are left as they
\* were.
PortableFrame(T) ==
    /\ \A t \in Topics \ {T} :
          /\ op_stats'[t] = op_stats[t]
          /\ op_matrix'[t] = op_matrix[t]
          /\ op_counter'[t] = op_counter[t]
          /\ valid_ballots_count'[t] = valid_ballots_count[t]
    /\ \A k \in DOMAIN ip_counter : k[1] # T => ip_counter'[k] = ip_counter[k]

\* nats-service: the keys op_stats, op_matrix and total_valid_ballots carry
\* no topic prefix and are left as they were, and so is every IP counter
\* whose key does not start with T.
NatsFrame(T) ==
    /\ n_kv' = n_kv
    /\ \A k \in DOMAIN n_ip_counter' :
          k[1] # T => k \in DOMAIN n_ip_counter /\ n_ip_counter'[k] = n_ip_counter[k]

\* The messages the save_score consumer has fetched and not yet finished.
InHand ==
    SeqRange(consumer.messages) \cup SeqRange(consumer.pairwise) \cup SeqRange(consumer.setwise)
        \cup SeqRange(consumer.groupwise) \cup SeqRange(consumer.plurality)

\* A flush of the aggregator, or a step of the save_score consumer (batch
\* path and single-ballot fallback), that handles Pairwise ballots of topic
\* T only.
C27_Step ==
    \A T \in Topics :
        /\ (/\ flush_attempt
            /\ batch.setwise = <<>> /\ batch.groupwise = <<>> /\ batch.plurality = <<>>
            /\ \A i \in DOMAIN batch.pairwise : batch.pairwise[i].topic = T)
           => PortableFrame(T)
        /\ (/\ consumer' # consumer
            /\ InHand # {}
            /\ \A m \in InHand : m.payload.kind = "pairwise" /\ m.payload.topic = T)
           => NatsFrame(T)

\* C27: processing a Pairwise ballot of topic T changes only keys prefixed
\* with T; every aggregate and every IP counter of any other topic is left
\* unchanged, on the batch path and on the single-ballot fallback path.
C27_TopicFrame == [][C27_Step]_vars

\* The trigger of the buffers g.
FlushLimit(g) == Min(g.capacity, 150)

C28_Step ==
    /\ \A v \in Variants : Len(groups'[v]) < FlushLimit(groups')
    /\ (recv_ballot /\ \E v \in Variants :
                          Len(add(groups, Head(channel))[v]) >= FlushLimit(groups))
       => /\ \A v \in Variants : groups'[v] = <<>>
          /\ \/ /\ batch' = taken(add(groups, Head(channel)))
                /\ attempt' = 1
             \/ /\ add(groups, Head(channel)).pairwise = <<>>
                /\ stats' = StatsAfterSuccess(stats, taken(add(groups, Head(channel))))

\* C28: after every iteration of the worker loop each of the four buffers
\* holds fewer than min(C, 150) ballots: as soon as an add brings one buffer
\* to min(C, 150) entries the worker flushes all four buffers before it
\* receives another ballot.
C28_BuffersBelowLimit == [][C28_Step]_vars

C28_Witness ==
    /\ groups.capacity = 2
    /\ attempt = 1
    /\ Len(batch.pairwise) = 2
    /\ \A v \in Variants : groups[v] = <<>>

\* UnboundedSender::send returns an error when the receiver is gone:
\* batch_processor_task owns the receiver and drops it when it returns.
SendFails == worker = "done"

C29_Step ==
    /\ recv_none =>
          /\ \A v \in Variants : groups'[v] = <<>>
          /\ \/ batch' = taken(groups)
             \/ /\ groups.pairwise = <<>>
                /\ stats'.total_processed = stats.total_processed + BatchLen(taken(groups))
    /\ SendFails' => /\ closed'
                     /\ PendingSeqs' = {}

\* C29: when the input channel closes, every ballot submitted before the
\* close is taken through one final flush before the worker exits, and
\* submit returns an error only after the worker has shut down.
C29_DrainOnClose == [][C29_Step]_vars

C29_Witness ==
    /\ worker = "done"
    /\ nextSeq = MaxBallots
    /\ ticks = 0
    /\ stats.successful_batches = 1
    /\ stats.total_processed = MaxBallots
    /\ stats.failed_batches = 0

\* C31: successive next_id calls on one Snowflake generator return strictly
\* increasing ids, whatever the clock reads, the wrap-around of the sequence
\* after 4096 calls within one millisecond included.
C31_StrictlyIncreasing ==
    Len(sf_ids) = 2 => sf_ids[1] < sf_ids[2]

\* The value the IP-counter script returned to the running attempt for the
\* key of the i-th ballot of the batch.
OwnMultiplier(i) == flush.script_results[i]

\* C32: in a Pairwise batch the multiplier applied to each ballot is the value
\* the IP-counter script returned for that ballot's own ip_counter key, and
\* every IP of the batch is in the ip -> multiplier map.
C32_Step ==
    /\ \A t \in Topics : \A k \in (Len(archive[t]) + 1)..Len(archive'[t]) :
          LET sb == archive'[t][k]
              i == CHOOSE j \in DOMAIN batch.pairwise : batch.pairwise[j].seq = sb.ballot.seq
          IN  sb.multiplier = OwnMultiplier(i)
    /\ (flush.pc = "ip_counter" /\ flush'.pc = "score_update") =>
          DOMAIN flush'.ip_multipliers = BatchIps(batch.pairwise)
C32_OwnMultiplier == [][C32_Step]_vars

\* The sum of the multiplier fields of the stored ballots satisfying keep.
MultiplierSum(stored, keep(_)) ==
    LET kept == SelectSeq(stored, keep)
    IN  SumSeq([i \in DOMAIN kept |-> kept[i].multiplier])

\* C33: whenever no flush is running, op_stats[T][o:win] is the sum of the
\* multipliers of the ballots archived in ballots_T whose win is o, likewise
\* o:lose for lose, and each ballot is archived once, whatever attempts
\* failed and were retried.
C33_StatsMatchArchive ==
    Idle => \A t \in Topics :
        /\ \A i, j \in DOMAIN archive[t] :
              archive[t][i].ballot.seq = archive[t][j].ballot.seq => i = j
        /\ \A o \in Operators :
              /\ HGet(op_stats[t], <<o, "win">>)
                    = MultiplierSum(archive[t], LAMBDA sb : sb.ballot.win = o)
              /\ HGet(op_stats[t], <<o, "lose">>)
                    = MultiplierSum(archive[t], LAMBDA sb : sb.ballot.lose = o)

\* The score script of the batch path has written aggregates for the
\* ballots of valid_ballots: the GETDEL of each of them, on its own key
\* {topic_id}:ballot:{ballot_id}, returned a value, and no two of them name
\* the same key.
C34_Step ==
    (consumer.pc = "batch_score_update" /\ n_kv' # n_kv) =>
        LET items == consumer.pairwise
            key(i) == ballot_key(items[i].payload.topic, items[i].payload.code)
        IN  /\ \A i \in consumer.valid : consumer.values[i] # Nil
            /\ \A i, j \in consumer.valid : key(i) = key(j) => i = j

\* C34: in the consumer batch path a ballot is scored only if the challenge
\* key {topic_id}:ballot:{ballot_id} of that very ballot existed and was
\* consumed for it, and each challenge yields at most one scored ballot, also
\* when one fetched batch holds several ballots with the same ballot_id under
\* the same or under different topic_ids.
C34_OwnChallenge == [][C34_Step]_vars

PairRejections == {"BallotWinnerCannotBeLoser", "InvalidBallotCode"}

C35_Step ==
    /\ \A s \in AtLookup :
          LET key == ballot_key(s.req.topic_id, s.req.ballot_id)
          IN  /\ key \notin DOMAIN ballot_cache_store'
              /\ channel' = channel
              /\ key \notin DOMAIN ballot_cache_store =>
                    response' = [n |-> s.n, message |-> "BallotNotFound"]
    /\ \A s \in AtSubmit :
          LET key == ballot_key(s.req.topic_id, s.req.ballot_id)
          IN  /\ key \notin DOMAIN ballot_cache_store
              /\ key \notin DOMAIN ballot_cache_store'
              /\ response'.message \in PairRejections => channel' = channel
    /\ \A i \in BallotIds : \A t \in TopicIds :
          (/\ i <= issued
           /\ \A c \in creating : c.id # i
           /\ ballot_key(t, i) \notin DOMAIN ballot_cache_store)
              => ballot_key(t, i) \notin DOMAIN ballot_cache_store'

\* C35: a /ballot/save rejected with BallotWinnerCannotBeLoser or
\* InvalidBallotCode has consumed the challenge: the record is removed before
\* winner and loser are checked and is never created again, so a later save
\* with the same ballot_id, a valid winner/loser pair included, is rejected
\* with BallotNotFound.
C35_RejectedSaveConsumes == [][C35_Step]_vars

\* C35 witness: the first save named a loser outside the challenge and was
\* rejected; the challenge is gone while a save of the same ballot_id with the
\* valid pair is still to do its lookup.
C35_Witness ==
    /\ response = [n |-> 1, message |-> "InvalidBallotCode"]
    /\ issued = 1
    /\ ballot_key("T1", 1) \notin DOMAIN ballot_cache_store
    /\ \E s \in inflight :
          /\ s.n = 2
          /\ s.pc = "remove"
          /\ s.req.topic_id = "T1" /\ s.req.ballot_id = 1
          /\ {s.req.winner, s.req.loser} = {1, 2}

C36_Step ==
    \A id \in DOMAIN tc_cache \cap DOMAIN tc_cache' :
        (tc_cache[id].data.updated_at # NoTime /\ tc_cache'[id].data.updated_at # NoTime)
            => tc_cache'[id].data.updated_at >= tc_cache[id].data.updated_at

\* C36: under concurrent TopicCache.insert calls for the same topic the
\* updated_at of the cached entry never moves backwards: an entry is never
\* replaced by a version whose updated_at is older than the one it replaces.
C36_UpdatedAtMonotonic == [][C36_Step]_vars

\* C37: a message on the retry ladder is never lost: when its republish or
\* its dead-letter publish fails, none of the double_acks of the original
\* succeeds and it stays with the stream for redelivery.
C37_NeverLost == \A r \in results : r.fate = "publish_failed" => ~r.acked

\* C38: two web-service processes never use the same snowflake worker_id at
\* the same time: an id acquired by a process stays reserved for it as long
\* as it runs, a failed or late keep-alive EXPIRE included.
C38_WorkerIdExclusive ==
    \A p, q \in WebProcesses :
        (p # q /\ wk_proc[p].pc = "running" /\ wk_proc[q].pc = "running")
            => wk_proc[p].worker_id # wk_proc[q].worker_id

\* Every task handed to spawn has ended: its worker completed or unwound.
AllTasksEnded ==
    /\ tm_tasks # <<>>
    /\ \A i \in DOMAIN tm_tasks : tm_tasks[i].at \in {"completed", "unwound"}

\* C39: TaskManager accounting is conserved: running <= concurrency and
\* queued + running + completed <= the number of spawn calls in every state,
\* and once every spawned task has ended, a panicking one included,
\* completed equals the number of spawn calls with queued = 0 and running = 0.
C39_TaskAccounting ==
    /\ tm_stats.running <= tm_concurrency
    /\ tm_stats.queued + tm_stats.running + tm_stats.completed <= Len(tm_tasks)
    /\ AllTasksEnded =>
          /\ tm_stats.completed = Len(tm_tasks)
          /\ tm_stats.queued = 0
          /\ tm_stats.running = 0

\* The number of ballots in the four variant buffers.
BufferedCount(g) == Len(g.pairwise) + Len(g.setwise) + Len(g.groupwise) + Len(g.plurality)

\* C40: BallotMessageGroup.total_count always equals the sum of the lengths
\* of the four variant buffers, so is_empty() is true exactly when all four
\* buffers are empty, after take_all has emptied them during a flush as well.
C40_TotalCountIsBufferSum ==
    /\ groups.total_count = BufferedCount(groups)
    /\ is_empty(groups) <=> BufferedCount(groups) = 0

====
